---------------------------- MODULE Spec2Model ----------------------------
(***************************************************************************)
(* A model of the CR30 reader's measurement pipeline:                      *)
(*   - the frame codec of protocol/packets.py (CR30Packet, PacketBuilder,  *)
(*     PacketParser), as operators on 60-byte sequences;                   *)
(*   - the transport of protocol/device.py (the receive loop, the frame    *)
(*     queue, send / recv / send_recv, the handshake);                     *)
(*   - the session of protocol/protocol.py (calibrate, measure,            *)
(*     wait_measurement, chunk reassembly, SPD decoding).                  *)
(*                                                                         *)
(* Bytes are the integers 0..255.  A bytes / bytearray object is a         *)
(* sequence; Python's index k is the sequence's index k + 1, and the       *)
(* operators At and Slice keep the source's 0-based indices.               *)
(*                                                                         *)
(* The program is single-threaded asyncio: a coroutine runs without        *)
(* interruption up to the next await that suspends.  One action of the     *)
(* model is one such uninterrupted run.  The suspension points are         *)
(* writer.drain() in send_raw, the queue wait in recv and readexactly in   *)
(* the receive loop.                                                       *)
(***************************************************************************)
EXTENDS Integers, Sequences, FiniteSets, TLC

(***************************************************************************)
(* Python helpers                                                          *)
(***************************************************************************)
Min(a, b) == IF a < b THEN a ELSE b

Max(a, b) == IF a > b THEN a ELSE b

\* s[k] for a 0-based index k
At(s, k) == s[k + 1]

\* s[a:b] for 0 <= a, 0 <= b; Python clamps both ends to len(s)
Slice(s, a, b) == SubSeq(s, Min(a, Len(s)) + 1, Min(b, Len(s)))

\* b'\x00' * n
Zeros(n) == [i \in 1..n |-> 0]

\* s with s[k] = v, 0-based
SetAt(s, k, v) == [s EXCEPT ![k + 1] = v]

\* sum(s[:n])
RECURSIVE SumFirst(_, _)
SumFirst(s, n) == IF n = 0 THEN 0 ELSE s[n] + SumFirst(s, n - 1)

(***************************************************************************)
(* CR30Packet: the object is its bytearray _data                           *)
(***************************************************************************)
PACKET_SIZE == 60

PAYLOAD_START == 4

PAYLOAD_END == 56

PAYLOAD_SIZE == 52

START_AA == 170

START_BB == 187

MARKER_FF == 255

\* CR30Packet(None): 60 zero bytes with the default marker at byte 58
NewPacket == SetAt(Zeros(PACKET_SIZE), 58, MARKER_FF)

\* CR30Packet(data) raises ValueError unless len(data) == 60
InitFromBytesOk(data) == Len(data) = PACKET_SIZE

PktStart(d) == At(d, 0)

PktCmd(d) == At(d, 1)

PktSubcmd(d) == At(d, 2)

PktParam(d) == At(d, 3)

PktPayload(d) == Slice(d, PAYLOAD_START, PAYLOAD_END)

PktMarker(d) == At(d, 58)

PktChecksum(d) == At(d, 59)

\* start.setter: accepted exactly for 0xAA and 0xBB
SetStartOk(value) == value \in {START_AA, START_BB}

\* a start setter that leaves the marker as it finds it
SetStartOnly(d, value) == SetAt(d, 0, value)

\* start.setter after the value check: byte 0, then the marker fix-up
SetStart(d, value) ==
    LET d1 == SetAt(d, 0, value)
    IN  IF value = START_AA THEN SetAt(d1, 58, MARKER_FF)
        ELSE IF At(d1, 58) \notin {0, MARKER_FF} THEN SetAt(d1, 58, MARKER_FF)
        ELSE d1

\* value & 0xFF for a non-negative value
And255(value) == value % 256

SetCmd(d, value) == SetAt(d, 1, And255(value))

SetSubcmd(d, value) == SetAt(d, 2, And255(value))

SetParam(d, value) == SetAt(d, 3, And255(value))

\* payload.setter: accepted when len(value) <= 52
SetPayloadOk(value) == Len(value) <= PAYLOAD_SIZE

\* a payload setter that copies the value one byte too far on
SetPayloadShifted(d, value) ==
    [i \in 1..Len(d) |->
        IF i - 1 >= PAYLOAD_START + 1 /\ i - 1 < PAYLOAD_START + 1 + Len(value)
        THEN value[i - PAYLOAD_START - 1]
        ELSE IF i - 1 >= PAYLOAD_START /\ i - 1 < PAYLOAD_END THEN 0
        ELSE d[i]]

\* payload.setter: clear bytes 4..55, then copy value from byte 4 on
SetPayload(d, value) ==
    [i \in 1..Len(d) |->
        IF i - 1 >= PAYLOAD_START /\ i - 1 < PAYLOAD_START + Len(value)
        THEN value[i - PAYLOAD_START]
        ELSE IF i - 1 >= PAYLOAD_START /\ i - 1 < PAYLOAD_END THEN 0
        ELSE d[i]]

\* the value calculate_checksum returns: sum(_data[:58]) % 256, less one
\* (mod 256) for a 0xBB packet
ChecksumValue(d) ==
    LET s == SumFirst(d, 58) % 256
    IN  IF PktStart(d) = START_BB THEN (s + 255) % 256 ELSE s

\* calculate_checksum's effect on the object: byte 59 is overwritten
calculate_checksum(d) == SetAt(d, 59, ChecksumValue(d))

\* CR30Packet.verify_checksum: calculate_checksum() stores the computed
\* value in byte 59 before the comparison reads byte 59
verify_checksum(d) ==
    LET calculated == ChecksumValue(d)
        after == calculate_checksum(d)
    IN  calculated = At(after, 59)

\* a structure check that looks at the length and the start byte only
IsValidIgnoresMarker(d) ==
    /\ Len(d) = PACKET_SIZE
    /\ PktStart(d) \in {START_AA, START_BB}

is_valid(d) ==
    /\ Len(d) = PACKET_SIZE
    /\ PktStart(d) \in {START_AA, START_BB}
    /\ ~(PktStart(d) = START_AA /\ PktMarker(d) # MARKER_FF)
    /\ ~(PktStart(d) = START_BB /\ PktMarker(d) \notin {0, MARKER_FF})

\* to_bytes: the checksum is recomputed, then the bytes are copied out
to_bytes(d) == calculate_checksum(d)

(***************************************************************************)
(* PacketBuilder                                                           *)
(***************************************************************************)
\* build_packet for an accepted start and a payload of at most 52 bytes;
\* "if data:" skips the payload setter for None and for b''
build_packet(start, cmd, subcmd, param, data) ==
    LET p1 == SetStart(NewPacket, start)
        p2 == SetCmd(p1, cmd)
        p3 == SetSubcmd(p2, subcmd)
        p4 == SetParam(p3, param)
        p5 == IF Len(data) > 0 THEN SetPayload(p4, data) ELSE p4
    IN  to_bytes(p5)

(***************************************************************************)
(* PacketParser: the stateless part                                        *)
(***************************************************************************)
\* is_valid_packet: False instead of an exception
is_valid_packet(packet) == InitFromBytesOk(packet) /\ is_valid(packet)

\* parse_packet returns a CR30Packet exactly when this holds, and raises
\* ValueError otherwise
ParsePacketOk(packet) == InitFromBytesOk(packet) /\ is_valid(packet)

\* the CR30Packet parse_packet returns (a copy of the bytes)
parse_packet(packet) == packet

\* PacketParser.verify_checksum: "true", "false", or "ValueError" when
\* parse_packet raises
ParserVerifyChecksum(packet) ==
    IF ~ParsePacketOk(packet) THEN "ValueError"
    ELSE IF verify_checksum(parse_packet(packet)) THEN "true" ELSE "false"

\* extract_payload for a packet parse_packet accepts
extract_payload(packet) == PktPayload(parse_packet(packet))


(***************************************************************************)
(* PacketParser: SPD chunk collection                                      *)
(* (state: _spd_bytes, _chunks_received, _chunk_info_list)                 *)
(***************************************************************************)
SUB_10 == 16

SUB_11 == 17

SUB_12 == 18

SUB_13 == 19

\* a single read big-endian (">f" where "<f" is meant)
F32BE(b) == <<b[1], b[2], b[3], b[4]>>

\* one IEEE-754 single read little-endian from 4 bytes, represented by the
\* 32-bit word that encodes it, most significant byte first
F32LE(b) == <<b[4], b[3], b[2], b[1]>>

\* struct.unpack("<{n}f", data) for n = len(data) // 4 = Len(data) \div 4
UnpackFloats(data) ==
    [i \in 1..(Len(data) \div 4) |-> F32LE(SubSeq(data, 4 * i - 3, 4 * i))]

\* a chunk's bytes taken from the start of the payload, not from offset 2
ChunkSpdDataFromZero(packet) ==
    IF PktSubcmd(packet) \in {SUB_10, SUB_11, SUB_12}
    THEN Slice(PktPayload(packet), 0, 48)
    ELSE <<>>

\* the bytes a chunk contributes: payload[2:50] for 0x10, 0x11, 0x12;
\* none for 0x13
ChunkSpdData(packet) ==
    IF PktSubcmd(packet) \in {SUB_10, SUB_11, SUB_12}
    THEN Slice(PktPayload(packet), 2, 50)
    ELSE <<>>

\* parse_spd_chunk returns (and changes the parser) exactly when this
\* holds; otherwise it raises ValueError and leaves the parser as it was
ParseSpdChunkOk(packet, received) ==
    /\ ParsePacketOk(packet)
    /\ PktSubcmd(packet) \notin received
    /\ PktSubcmd(packet) \in {SUB_10, SUB_11, SUB_12, SUB_13}

\* the chunk_info dictionary parse_spd_chunk returns.  payload stands for
\* its hex string.  The keys spd_raw and spd, which repeat payload[2:50] as
\* hex and as floats, are left out: the 48 bytes always unpack into 12
\* floats, so neither can make the call fail.
ChunkInfo(packet) ==
    LET subcmd == PktSubcmd(packet)
        spd_data == ChunkSpdData(packet)
    IN  IF subcmd = SUB_10
        THEN [subcmd |-> subcmd, payload |-> PktPayload(packet),
              spd_bytes_start |-> 2, spd_bytes_count |-> Len(spd_data)]
        ELSE IF subcmd \in {SUB_11, SUB_12}
        THEN [subcmd |-> subcmd, payload |-> PktPayload(packet),
              spd_bytes_count |-> Len(spd_data)]
        ELSE [subcmd |-> subcmd, payload |-> PktPayload(packet),
              spd_bytes_count |-> 0]

\* the entry _read_all_chunks appends when parse_spd_chunk raised:
\* the subcommand is the one that was requested
ChunkError(subcmd) == [subcmd |-> subcmd, error |-> "ValueError"]

\* the order of the chunk requests in _read_all_chunks
chunk_subcmds == <<SUB_10, SUB_11, SUB_12, SUB_13>>

\* the wavelengths of CR30Protocol.__init__: range(400, 701, 10)
wavelengths == [i \in 1..31 |-> 400 + 10 * (i - 1)]

SPD_NEED == 124

\* a decoder that accepts exactly 124 bytes only
ParsedSpdExact(bytes) ==
    IF Len(bytes) # SPD_NEED THEN <<>>
    ELSE UnpackFloats(Slice(bytes, 0, SPD_NEED))

\* _parse_spd_data: what becomes of result["spd"]
ParsedSpd(bytes) ==
    IF Len(bytes) < SPD_NEED THEN <<>>
    ELSE UnpackFloats(Slice(bytes, 0, SPD_NEED))

\* _parse_spd_data: result["spd_data"] = dict(zip(wavelengths, spd)), as
\* the pairs of the zip; the key is not set when the data is insufficient
ParsedSpdData(bytes) ==
    IF Len(bytes) < SPD_NEED THEN <<>>
    ELSE LET spd == ParsedSpd(bytes)
         IN  [i \in 1..Min(Len(wavelengths), Len(spd)) |->
                  <<wavelengths[i], spd[i]>>]


(***************************************************************************)
(* State                                                                   *)
(***************************************************************************)
VARIABLES
    frames,             \* CR30Device._frames, the asyncio.Queue
    running,            \* CR30Device._running
    reads,              \* how many 60-byte chunks the receive loop has read
    spd_bytes,          \* PacketParser._spd_bytes
    chunks_received,    \* PacketParser._chunks_received
    chunk_info_list,    \* PacketParser._chunk_info_list
    identity,           \* CR30Device._device_name, _model, _serial, ...
    pc,                 \* where the session's caller is suspended
    op,                 \* the operation in progress, or the last one
    step,               \* the index of the loop the operation is in
    sent,               \* the packets the operation has written so far
    replies,            \* the frames the operation's chunk requests got
    result,             \* the result dictionary being assembled / returned
    outcome,            \* how the last operation ended
    ops,                \* how many operations have been started
    discarded,          \* what the last flush and reset threw away (sizes)
    cin,                \* codec: the arguments given to build_packet
    cbuf,               \* codec: the 60-byte buffer under test
    cstage,             \* codec: what has been done to the buffer
    ctamper,            \* codec: the position of the replaced byte, or -1
    cout,               \* codec: what verify / decode answered
    wire,               \* device: every chunk readexactly(60) has returned
    returned,           \* device: the frames recv has returned, in order
    loop,               \* device: the state of the _receive_loop task
    closed,             \* device: writer.close() has been called
    callers,            \* device: the coroutines calling recv / send_recv
    written,            \* device: what writer.write was given, and by whom
    pkt_data,           \* packet: the _data of a CR30Packet being assigned to
    assigned,           \* packet: start has been assigned successfully
    last_set,           \* packet: the last assignment, and _data before it
    sets,               \* packet: how many assignments have been made
    rx_in,              \* decode: the buffer parse_packet was given
    rx_out,             \* decode: what parse_packet answered
    rx_data,            \* decode: the _data of the CR30Packet it returned
    rx_last,            \* decode: the last method called on that packet
    rx_calls,           \* decode: how many methods have been called on it
    p_last,             \* parser: the last call, and the state before it
    p_calls,            \* parser: how many PacketParser calls have been made
    raw_callbacks,              \* CR30Device._raw_callbacks
    raw_measurement_callbacks,  \* CR30Protocol._raw_measurement_callbacks
    response_callbacks,         \* CR30Protocol._response_callbacks
    cb_calls,           \* observers: every callback invocation, in order
    m_returned,         \* observers: what _read_measurement has returned
    events,             \* observers: measurements concluded and chunks read
    c_call,             \* colour: the conversion being followed
    c_in,               \* colour: its arguments
    c_mid,              \* colour: what the first function returned
    c_out,              \* colour: what the second function returned
    c_stage             \* colour: how many of the functions have returned

sessionVars == <<frames, running, reads, spd_bytes, chunks_received,
                 chunk_info_list, identity, pc, op, step, sent, replies,
                 result, outcome, ops, discarded>>

codecVars == <<cin, cbuf, cstage, ctamper, cout>>

deviceVars == <<wire, returned, loop, closed, callers, written>>

packetVars == <<pkt_data, assigned, last_set, sets>>

decodeVars == <<rx_in, rx_out, rx_data, rx_last, rx_calls>>

parserVars == <<p_last, p_calls>>

observerVars == <<raw_callbacks, raw_measurement_callbacks,
                  response_callbacks, cb_calls, m_returned, events>>

colorVars == <<c_call, c_in, c_mid, c_out, c_stage>>

laterVars == <<decodeVars, parserVars, observerVars, colorVars>>

otherVars == <<deviceVars, packetVars, laterVars>>

vars == <<sessionVars, codecVars, otherVars>>


(***************************************************************************)
(* The state a connected, idle session is in                               *)
(***************************************************************************)
NoIdentity == [name |-> <<>>, model |-> <<>>, serial |-> <<>>,
               firmware |-> <<>>, build |-> <<>>]

SessionIdle ==
    /\ frames = <<>>
    /\ running = TRUE
    /\ reads = 0
    /\ spd_bytes = <<>>
    /\ chunks_received = {}
    /\ chunk_info_list = <<>>
    /\ identity = NoIdentity
    /\ pc = "idle"
    /\ op = "none"
    /\ step = 0
    /\ sent = <<>>
    /\ replies = <<>>
    /\ result = <<>>
    /\ outcome = "none"
    /\ ops = 0
    /\ discarded = [queued |-> 0, bytes |-> 0]

CodecIdle ==
    /\ cin = <<>>
    /\ cbuf = <<>>
    /\ cstage = "off"
    /\ ctamper = -1
    /\ cout = [kind |-> "none"]

\* the coroutines of the application that call into the device
Callers == {"first", "second"}

\* a caller that has not called yet; each caller makes one call
NotCalling == [pc |-> "idle", call |-> "none", timed |-> TRUE,
               out |-> [kind |-> "pending"]]

\* a connected device whose callers are outside recv and send_recv
DeviceIdle ==
    /\ wire = <<>>
    /\ returned = <<>>
    /\ loop = "reading"
    /\ closed = FALSE
    /\ callers = [c \in Callers |-> NotCalling]
    /\ written = <<>>

\* no packet under assignment
PacketIdle ==
    /\ pkt_data = <<>>
    /\ assigned = FALSE
    /\ last_set = [name |-> "none", ok |-> TRUE, before |-> <<>>]
    /\ sets = 0

\* parse_packet has not been called
DecodeIdle ==
    /\ rx_in = <<>>
    /\ rx_out = [kind |-> "none"]
    /\ rx_data = <<>>
    /\ rx_last = [name |-> "none", value |-> <<>>]
    /\ rx_calls = 0

\* a new PacketParser: nothing has been called on it
ParserIdle ==
    /\ p_last = [call |-> "none"]
    /\ p_calls = 0

\* a new CR30Protocol: no callback is registered
ObserversIdle ==
    /\ raw_callbacks = <<>>
    /\ raw_measurement_callbacks = <<>>
    /\ response_callbacks = <<>>
    /\ cb_calls = <<>>
    /\ m_returned = <<>>
    /\ events = 0

\* no ColorScience method has been called
ColorIdle ==
    /\ c_call = "none"
    /\ c_in = <<>>
    /\ c_mid = <<>>
    /\ c_out = <<>>
    /\ c_stage = 0

LaterIdle == DecodeIdle /\ ParserIdle /\ ObserversIdle /\ ColorIdle

OthersIdle == DeviceIdle /\ PacketIdle /\ LaterIdle

(***************************************************************************)
(* The codec on its own: build_packet on a bounded set of arguments, then  *)
(* a single byte replaced, verify_checksum and parse_packet                *)
(***************************************************************************)
\* payloads of length 0..MaxShortPayload and of the two longest lengths
MaxShortPayload == 1

CodecStarts == {START_AA, START_BB}

CodecCmds == {10, 255}

CodecSubcmds == {0, 19}

CodecParams == {0, 255}

CodecSeeds == {1, 200}

CodecLengths == (0..MaxShortPayload) \cup {PAYLOAD_SIZE - 1, PAYLOAD_SIZE}

\* a payload whose bytes differ from place to place and wrap past 255
PatternBytes(len, seed) == [i \in 1..len |-> (seed + 37 * i) % 256]

CodecPayloads == {PatternBytes(n, sd) : n \in CodecLengths, sd \in CodecSeeds}

\* the amounts (mod 256) by which a replaced byte differs from the original
TamperDeltas == {1, 128, 255}

CodecInit ==
    /\ SessionIdle
    /\ OthersIdle
    /\ cin \in [start : CodecStarts, cmd : CodecCmds, subcmd : CodecSubcmds,
                param : CodecParams, payload : CodecPayloads]
    /\ cbuf = <<>>
    /\ cstage = "input"
    /\ ctamper = -1
    /\ cout = [kind |-> "none"]

\* PacketBuilder.build_packet(start, cmd, subcmd, param, data)
CodecEncode ==
    /\ cstage = "input"
    /\ SetStartOk(cin.start) /\ SetPayloadOk(cin.payload)
    /\ cbuf' = build_packet(cin.start, cin.cmd, cin.subcmd, cin.param,
                            cin.payload)
    /\ cstage' = "encoded"
    /\ UNCHANGED <<cin, ctamper, cout, sessionVars, otherVars>>

\* one byte of the encoded frame, at a position in 0..58, is replaced by a
\* different value
CodecTamper ==
    /\ cstage = "encoded"
    /\ \E pos \in 0..58, delta \in TamperDeltas :
          /\ cbuf' = SetAt(cbuf, pos, (At(cbuf, pos) + delta) % 256)
          /\ ctamper' = pos
    /\ cstage' = "tampered"
    /\ UNCHANGED <<cin, cout, sessionVars, otherVars>>

\* CR30Packet(cbuf).verify_checksum() and PacketParser.verify_checksum(cbuf)
CodecVerify ==
    /\ cstage \in {"encoded", "tampered"}
    /\ cout' = [kind |-> "verify",
                packet |-> verify_checksum(cbuf),
                parser |-> ParserVerifyChecksum(cbuf)]
    /\ cstage' = "verified"
    /\ UNCHANGED <<cin, cbuf, ctamper, sessionVars, otherVars>>

\* PacketParser.parse_packet(cbuf) and the fields of the packet it returns
CodecDecode ==
    /\ cstage \in {"encoded", "tampered"}
    /\ cout' = IF ParsePacketOk(cbuf)
               THEN LET pkt == parse_packet(cbuf)
                    IN  [kind |-> "decode", ok |-> TRUE,
                         start |-> PktStart(pkt), cmd |-> PktCmd(pkt),
                         subcmd |-> PktSubcmd(pkt), param |-> PktParam(pkt),
                         payload |-> PktPayload(pkt)]
               ELSE [kind |-> "decode", ok |-> FALSE]
    /\ cstage' = "decoded"
    /\ UNCHANGED <<cin, cbuf, ctamper, sessionVars, otherVars>>

CodecNext == CodecEncode \/ CodecTamper \/ CodecVerify \/ CodecDecode

CodecSpec == CodecInit /\ [][CodecNext]_vars

(***************************************************************************)
(* C1: decoding the buffer build_packet returns yields the start, cmd,     *)
(* subcmd and param that were given, and a 52-byte payload that is the     *)
(* given payload followed by zero bytes; the buffer is 60 bytes long.      *)
(***************************************************************************)
C1_RoundTrip ==
    (cstage = "decoded" /\ ctamper = -1) =>
        /\ Len(cbuf) = 60
        /\ cout.ok
        /\ cout.start = cin.start
        /\ cout.cmd = cin.cmd
        /\ cout.subcmd = cin.subcmd
        /\ cout.param = cin.param
        /\ Len(cout.payload) = 52
        /\ cout.payload = cin.payload \o Zeros(52 - Len(cin.payload))

\* C1 witness: a 0xBB frame with a short, non-empty payload has been encoded
\* and decoded without tampering
C1_Witness ==
    /\ cstage = "decoded" /\ ctamper = -1 /\ cout.ok
    /\ Len(cin.payload) = 1
    /\ cin.start = START_BB /\ cin.cmd = 255

(***************************************************************************)
(* C2: after a single byte at a position in 0..58 of an encoded frame has  *)
(* been replaced by a different value, verify_checksum answers false.      *)
(***************************************************************************)
C2_TamperDetected ==
    (cstage = "verified" /\ ctamper \in 0..58) =>
        /\ cout.packet = FALSE
        /\ cout.parser = "false"


(***************************************************************************)
(* The session: the receive loop and one caller of calibrate, measure and  *)
(* wait_measurement, on a device that connect() has returned from          *)
(***************************************************************************)
\* the receive loop reads at most MaxReads chunks in a behaviour
MaxReads == 5

\* the caller starts at most MaxOps operations in a behaviour
MaxOps == 2

\* the receive loop is not scheduled while the queue holds MaxQueue frames
MaxQueue == 2

\* a reply of the device: a command frame with a payload that differs from
\* byte to byte
DeviceFrame(subcmd, seed) ==
    build_packet(START_BB, 1, subcmd, 0, PatternBytes(PAYLOAD_SIZE, seed))

\* the four chunk replies
ChunkFrames == {DeviceFrame(sc, sc) : sc \in {SUB_10, SUB_11, SUB_12, SUB_13}}

\* a measurement header (button press, or the reply to the trigger); its
\* payload[1] is 0x01, which calibrate reads as success
HeaderFrame ==
    build_packet(START_BB, 1, 9, 0, [i \in 1..PAYLOAD_SIZE |-> i - 1])

\* what readexactly(60) returns while a session is followed: the frames
\* the device sends (TransportSpec below reads damaged chunks too)
WireChunks == ChunkFrames \cup {HeaderFrame}

\* the result dictionary _read_measurement starts from.  The hex strings
\* are represented by the bytes they spell; result["raw"], which repeats
\* the header's and the chunks' payloads, is left out.  spd_bytes and
\* spd_data are keys the code adds later: <<>> stands for their absence.
NewResult == [header |-> <<>>, chunks |-> <<>>, spd |-> <<>>,
              spd_bytes |-> <<>>, spd_data |-> <<>>]

\* result["header"] for the header packet
HeaderInfo(pkt) == [cmd |-> PktCmd(pkt), subcmd |-> PktSubcmd(pkt),
                    param |-> PktParam(pkt), payload |-> PktPayload(pkt)]

\* a flush that leaves the queue as it is
FlushKeeps(q) == q

\* flush_recv: get_nowait until QueueEmpty
flush_recv(q) == <<>>

\* a reset that forgets to clear the set of received chunks
ResetKeepsReceived ==
    [bytes |-> <<>>, received |-> chunks_received, infos |-> <<>>]

\* reset_spd_collection: the new _spd_bytes, _chunks_received, _chunk_info_list
reset_spd_collection == [bytes |-> <<>>, received |-> {}, infos |-> <<>>]

\* _read_measurement from "result[spd_bytes] = ..." on: the accumulated
\* bytes are stored and decoded (_parse_spd_data)
Concluded(res, bytes) ==
    [res EXCEPT !.spd_bytes = bytes,
                !.spd = ParsedSpd(bytes),
                !.spd_data = ParsedSpdData(bytes)]

\* the chunk requests, in the order of chunk_subcmds
ChunkRequests ==
    [i \in 1..Len(chunk_subcmds) |->
        build_packet(START_BB, 1, chunk_subcmds[i], 0, <<>>)]

\* the chunk request for chunk_subcmds[i]
ChunkRequest(i) == ChunkRequests[i]

\* _receive_loop, one iteration, for a chunk that readexactly(60)
\* returned: a valid one is put in the queue, an invalid one is dropped
ReceiveChunk(data) ==
    /\ running
    /\ reads < MaxReads
    /\ Len(frames) < MaxQueue
    /\ frames' = IF is_valid_packet(data) THEN Append(frames, data)
                 ELSE frames
    /\ reads' = reads + 1
    /\ UNCHANGED <<running, spd_bytes, chunks_received, chunk_info_list,
                   identity, pc, op, step, sent, replies, result, outcome,
                   ops, discarded,
                   codecVars, otherVars>>

\* the receive loop beside a session; reads that follow the return of the
\* behaviour's last operation are not followed
ReceiveLoop ==
    /\ ~(pc = "idle" /\ ops = MaxOps)
    /\ \E data \in WireChunks : ReceiveChunk(data)

\* the command of calibrate: 0x11 if white else 0x10
CalibrateCmd(white) == IF white THEN 17 ELSE 16

\* a status read from the first byte of the payload
CalibrateStatusFirst(payload) == IF Len(payload) > 0 THEN At(payload, 0) ELSE 0

\* status = payload[1] if len(payload) > 1 else 0
CalibrateStatus(payload) == IF Len(payload) > 1 THEN At(payload, 1) ELSE 0

\* calibrate up to the wait for the reply: the command is written
CalibrateStart ==
    /\ pc = "idle" /\ ops < MaxOps
    /\ \E white \in BOOLEAN :
          sent' = <<build_packet(START_BB, CalibrateCmd(white), 0, 0, <<>>)>>
    /\ pc' = "cal_recv"
    /\ op' = "calibrate"
    /\ ops' = ops + 1
    /\ step' = 0
    /\ replies' = <<>>
    /\ result' = <<>>
    /\ outcome' = "none"
    /\ UNCHANGED <<frames, running, reads, spd_bytes, chunks_received,
                   chunk_info_list, identity, discarded,
                   codecVars, otherVars>>

\* calibrate from the reply on
CalibrateRecv ==
    /\ pc = "cal_recv" /\ frames # <<>>
    /\ LET response == Head(frames)
           payload == extract_payload(response)
           status == CalibrateStatus(payload)
       IN  IF ParsePacketOk(response)
           THEN /\ result' = [success |-> (status = 1),
                              status_byte |-> status,
                              raw_response |-> response]
                /\ outcome' = "result"
           ELSE /\ result' = <<>>
                /\ outcome' = "ValueError"
    /\ frames' = Tail(frames)
    /\ pc' = "idle"
    /\ UNCHANGED <<running, reads, spd_bytes, chunks_received,
                   chunk_info_list, identity, op, step, sent, replies, ops,
                   discarded,
                   codecVars, otherVars>>

\* calibrate when recv returned None: asyncio.TimeoutError is raised
CalibrateTimeout ==
    /\ pc = "cal_recv" /\ frames = <<>>
    /\ outcome' = "TimeoutError"
    /\ pc' = "idle"
    /\ UNCHANGED <<frames, running, reads, spd_bytes, chunks_received,
                   chunk_info_list, identity, op, step, sent, replies,
                   result, ops, discarded,
                   codecVars, otherVars>>

\* measure up to the wait for the header: the trigger BB 01 00 is written
MeasureStart ==
    /\ pc = "idle" /\ ops < MaxOps
    /\ sent' = <<build_packet(START_BB, 1, 0, 0, <<>>)>>
    /\ pc' = "hdr_recv"
    /\ op' = "measure"
    /\ ops' = ops + 1
    /\ step' = 0
    /\ replies' = <<>>
    /\ result' = <<>>
    /\ outcome' = "none"
    /\ UNCHANGED <<frames, running, reads, spd_bytes, chunks_received,
                   chunk_info_list, identity, discarded,
                   codecVars, otherVars>>

\* wait_measurement up to the wait for the button press
WaitMeasurementStart ==
    /\ pc = "idle" /\ ops < MaxOps
    /\ sent' = <<>>
    /\ pc' = "hdr_recv"
    /\ op' = "wait_measurement"
    /\ ops' = ops + 1
    /\ step' = 0
    /\ replies' = <<>>
    /\ result' = <<>>
    /\ outcome' = "none"
    /\ UNCHANGED <<frames, running, reads, spd_bytes, chunks_received,
                   chunk_info_list, identity, discarded,
                   codecVars, otherVars>>

\* a wait for the header that ends with "no data", not with an error
NoHeaderReturnsNone == "none"

\* "if not response: raise asyncio.TimeoutError(...)" of wait_measurement
\* and of measure
NoHeaderOutcome == "TimeoutError"

\* measure / wait_measurement when recv returned None
HeaderTimeout ==
    /\ pc = "hdr_recv" /\ frames = <<>>
    /\ outcome' = NoHeaderOutcome
    /\ pc' = "idle"
    /\ UNCHANGED <<frames, running, reads, spd_bytes, chunks_received,
                   chunk_info_list, identity, op, step, sent, replies,
                   result, ops, discarded,
                   codecVars, otherVars>>

\* the header has been dequeued: _read_measurement up to the wait for the
\* first chunk reply.  flush_recv, the header parse, reset_spd_collection
\* (in _read_all_chunks) and the write of the request for 0x10
ReadMeasurementBegin ==
    /\ pc = "hdr_recv" /\ frames # <<>>
    /\ LET initial_response == Head(frames)
           fresh == reset_spd_collection
       IN  /\ frames' = flush_recv(Tail(frames))
           /\ IF ParsePacketOk(initial_response)
              THEN /\ result' = [NewResult EXCEPT
                          !.header = HeaderInfo(parse_packet(initial_response))]
                   /\ spd_bytes' = fresh.bytes
                   /\ chunks_received' = fresh.received
                   /\ chunk_info_list' = fresh.infos
                   /\ sent' = Append(sent, ChunkRequest(1))
                   /\ step' = 1
                   /\ pc' = "chunk_recv"
                   /\ outcome' = "none"
              ELSE /\ outcome' = "ValueError"
                   /\ pc' = "idle"
                   /\ UNCHANGED <<result, spd_bytes, chunks_received,
                                  chunk_info_list, sent, step>>
    /\ discarded' = [queued |-> Len(Tail(frames)), bytes |-> Len(spd_bytes)]
    /\ UNCHANGED <<running, reads, identity, op, replies, ops, codecVars, otherVars>>


\* no except clause: the parser's ValueError reaches the caller
CatchesNothing(e) == FALSE

\* the "except ValueError" clause around parse_spd_chunk in
\* _read_all_chunks: which exceptions it handles
CatchesChunkError(e) == e = "ValueError"

\* "continue" where "break" is meant: a missing reply does not end the loop
NextChunkIndexContinue(i, got_reply) == i + 1

\* the control of the loop over chunk_subcmds: the index of the next
\* request after request i, past the end when the loop is left ("break"
\* when there was no reply)
NextChunkIndex(i, got_reply) ==
    IF got_reply THEN i + 1 ELSE Len(chunk_subcmds) + 1

\* _read_all_chunks after request number step was answered or timed out,
\* up to the next suspension: either the next request is written, or the
\* loop is left and _read_measurement runs to its return
ChunkLoopAdvance(got_reply, res, bytes) ==
    LET n == NextChunkIndex(step, got_reply)
    IN  IF n <= Len(chunk_subcmds)
        THEN /\ sent' = Append(sent, ChunkRequest(n))
             /\ step' = n
             /\ pc' = "chunk_recv"
             /\ result' = res
             /\ outcome' = "none"
        ELSE /\ sent' = sent
             /\ step' = step
             /\ pc' = "idle"
             /\ result' = Concluded(res, bytes)
             /\ outcome' = "result"

\* a chunk request's reply has been dequeued: parse_spd_chunk, the entry
\* in result["chunks"], and the loop's next iteration
ChunkRecv ==
    /\ pc = "chunk_recv" /\ frames # <<>>
    /\ LET packet == Head(frames)
           subcmd == chunk_subcmds[step]
       IN  /\ frames' = Tail(frames)
           /\ replies' = Append(replies, packet)
           /\ IF ParseSpdChunkOk(packet, chunks_received)
              THEN /\ spd_bytes' = spd_bytes \o ChunkSpdData(packet)
                   /\ chunks_received' =
                          chunks_received \cup {PktSubcmd(packet)}
                   /\ chunk_info_list' =
                          Append(chunk_info_list, ChunkInfo(packet))
                   /\ ChunkLoopAdvance(TRUE,
                          [result EXCEPT
                              !.chunks = Append(@, ChunkInfo(packet))],
                          spd_bytes \o ChunkSpdData(packet))
              ELSE IF CatchesChunkError("ValueError")
              THEN /\ UNCHANGED <<spd_bytes, chunks_received,
                                  chunk_info_list>>
                   /\ ChunkLoopAdvance(TRUE,
                          [result EXCEPT
                              !.chunks = Append(@, ChunkError(subcmd))],
                          spd_bytes)
              ELSE /\ UNCHANGED <<spd_bytes, chunks_received,
                                  chunk_info_list, sent, step, result>>
                   /\ pc' = "idle"
                   /\ outcome' = "ValueError"
    /\ UNCHANGED <<running, reads, identity, op, ops, discarded,
                   codecVars, otherVars>>

\* a chunk request got no reply within the per-step timeout
ChunkTimeout ==
    /\ pc = "chunk_recv" /\ frames = <<>>
    /\ ChunkLoopAdvance(FALSE, result, spd_bytes)
    /\ UNCHANGED <<frames, running, reads, spd_bytes, chunks_received,
                   chunk_info_list, identity, op, replies, ops, discarded,
                   codecVars, otherVars>>

Init == SessionIdle /\ CodecIdle /\ OthersIdle

Next ==
    \/ ReceiveLoop
    \/ CalibrateStart
    \/ CalibrateRecv
    \/ CalibrateTimeout
    \/ MeasureStart
    \/ WaitMeasurementStart
    \/ HeaderTimeout
    \/ ReadMeasurementBegin
    \/ ChunkRecv
    \/ ChunkTimeout

Spec == Init /\ [][Next]_vars


(***************************************************************************)
(* The transport on its own: the receive loop on chunks of every kind,     *)
(* and a caller of recv                                                    *)
(***************************************************************************)
\* a chunk of valid structure whose checksum byte is wrong
CorruptFrame ==
    SetAt(HeaderFrame, 59, (PktChecksum(HeaderFrame) + 1) % 256)

\* a chunk whose start byte is neither 0xAA nor 0xBB
BadStartFrame == SetAt(HeaderFrame, 0, 204)

\* a handshake reply, and the same with a marker 0xAA frames may not have
InfoFrame == build_packet(START_AA, 10, 0, 0, PatternBytes(PAYLOAD_SIZE, 65))

BadMarkerFrame == SetAt(InfoFrame, 58, 0)

TransportChunks == {HeaderFrame, InfoFrame, DeviceFrame(SUB_10, SUB_10),
                    CorruptFrame, BadStartFrame, BadMarkerFrame}

TransportReceive == \E data \in TransportChunks : ReceiveChunk(data)

\* recv() when the queue holds a frame: the head is returned
TransportRecv ==
    /\ pc = "idle" /\ frames # <<>>
    /\ replies' = Append(replies, Head(frames))
    /\ frames' = Tail(frames)
    /\ UNCHANGED <<running, reads, spd_bytes, chunks_received,
                   chunk_info_list, identity, pc, op, step, sent, result,
                   outcome, ops, discarded,
                   codecVars, otherVars>>

TransportNext == TransportReceive \/ TransportRecv

TransportSpec == Init /\ [][TransportNext]_vars

(***************************************************************************)
(* C3: the receive loop never puts into the queue a chunk whose checksum   *)
(* byte (byte 59) differs from the checksum of its other bytes.            *)
(***************************************************************************)
C3_QueuedChecksumsHold ==
    \A i \in 1..Len(frames) :
        frames[i][60] =
            (IF frames[i][1] = 187
             THEN SumFirst(frames[i], 58) + 255
             ELSE SumFirst(frames[i], 58)) % 256


(***************************************************************************)
(* What the measurement claims speak of                                    *)
(***************************************************************************)
\* the operation in progress, or the last one, is a measurement
IsMeasurement == op \in {"measure", "wait_measurement"}

\* the measurement has returned a result to its caller
MeasurementReturned == IsMeasurement /\ pc = "idle" /\ outcome = "result"

\* the chunk requests (BB 01 10..13) among the packets written so far
SentChunkRequests ==
    SelectSeq(sent, LAMBDA p : p[1] = 187 /\ p[2] = 1 /\ p[3] \in 16..19)

\* the subcommand byte of the i-th reply dequeued by a chunk request
ReplySubcmd(i) == replies[i][3]

\* payload[2:50] of the i-th reply: bytes 6..53 of the frame
ReplyData(i) == SubSeq(replies[i], 7, 54)

\* the i-th reply carries a subcommand that an earlier reply of the same
\* measurement carried and that was consumed then
IsDuplicateAt(i) ==
    /\ ReplySubcmd(i) \in 16..19
    /\ \E j \in 1..(i - 1) : ReplySubcmd(j) = ReplySubcmd(i)

\* the bytes the replies i.. add when each reply counts by its own
\* subcommand, once
RECURSIVE OwnSubcmdBytes(_, _)
OwnSubcmdBytes(i, seen) ==
    IF i > Len(replies) THEN <<>>
    ELSE IF ReplySubcmd(i) \in 16..18 /\ ReplySubcmd(i) \notin seen
    THEN ReplyData(i) \o OwnSubcmdBytes(i + 1, seen \cup {ReplySubcmd(i)})
    ELSE OwnSubcmdBytes(i + 1, seen)

\* the bytes the replies i.. add when the reply to each of the first three
\* requests counts, whatever it carries
RECURSIVE RequestOrderBytes(_)
RequestOrderBytes(i) ==
    IF i > Len(replies) \/ i > 3 THEN <<>>
    ELSE ReplyData(i) \o RequestOrderBytes(i + 1)

C5_ChunkRequestOrder ==
    (IsMeasurement /\ pc \in {"chunk_recv", "idle"}) =>
        LET reqs == SentChunkRequests
        IN  /\ Len(reqs) <= 4
            /\ \A i \in 1..Len(reqs) :
                  /\ reqs[i][3] = 15 + i
                  /\ reqs[i][4] = 0
            /\ Len(sent) = Len(reqs) + (IF op = "measure" THEN 1 ELSE 0)
            /\ pc = "chunk_recv" => Len(reqs) = Len(replies) + 1
            /\ (pc = "idle" /\ Len(reqs) > 0) =>
                  /\ outcome = "result"
                  /\ Len(reqs) = Min(Len(replies) + 1, 4)
                  /\ result.spd_bytes = spd_bytes
                  /\ Len(result.spd_bytes) =
                        48 * Cardinality({i \in 1..Len(result.chunks) :
                                 /\ "error" \notin DOMAIN result.chunks[i]
                                 /\ result.chunks[i].subcmd \in 16..18})

\* the third request timed out: two replies, 96 bytes kept and returned
C5_Witness ==
    /\ MeasurementReturned
    /\ Len(replies) = 2
    /\ Len(SentChunkRequests) = 3
    /\ Len(result.spd_bytes) = 96

(***************************************************************************)
(* C6 as claimed: when the chunk requests conclude, the accumulated        *)
(* buffer is the concatenation, in request order, of payload[2:50] of the  *)
(* reply to each answered request 0x10, 0x11, 0x12.                        *)
(***************************************************************************)
C6_BytesByRequest ==
    MeasurementReturned => spd_bytes = RequestOrderBytes(1)

(***************************************************************************)
(* C6 as amended: the accumulated buffer is the concatenation, in the      *)
(* order the replies were dequeued, of payload[2:50] of each reply whose   *)
(* own subcommand is 0x10, 0x11 or 0x12 and was not consumed before in     *)
(* the measurement; any other reply adds nothing, whichever request it     *)
(* answers.                                                                *)
(***************************************************************************)
C6_BytesByOwnSubcmd ==
    (IsMeasurement /\ (pc = "chunk_recv" \/ MeasurementReturned)) =>
        /\ spd_bytes = OwnSubcmdBytes(1, {})
        /\ MeasurementReturned => result.spd_bytes = OwnSubcmdBytes(1, {})

\* all four requests were answered in kind: 144 bytes, none from 0x13
C6_Witness ==
    /\ MeasurementReturned
    /\ Len(replies) = 4
    /\ \A i \in 1..4 : ReplySubcmd(i) = 15 + i
    /\ Len(spd_bytes) = 144

C8_CurveFromFirst124 ==
    MeasurementReturned =>
        LET b == result.spd_bytes
        IN  IF Len(b) >= 124
            THEN /\ Len(result.spd) = 31
                 /\ Len(result.spd_data) = 31
                 /\ \A i \in 1..31 :
                       /\ result.spd[i] =
                             <<b[4 * i], b[4 * i - 1], b[4 * i - 2],
                               b[4 * i - 3]>>
                       /\ result.spd_data[i] =
                             <<400 + 10 * (i - 1), result.spd[i]>>
                 /\ result.spd_data[31][1] = 700
            ELSE /\ result.spd = <<>>
                 /\ result.spd_data = <<>>

\* a measurement returned a curve decoded from 144 accumulated bytes
C8_Witness ==
    /\ MeasurementReturned
    /\ Len(result.spd_bytes) = 144
    /\ Len(result.spd) = 31

(***************************************************************************)
(* C9: the step that writes a measurement's first chunk request leaves     *)
(* the queue drained and the accumulator reset; and at every later point   *)
(* of the measurement the consumed subcommands, the chunk infos and the    *)
(* spectral bytes of the accumulator and of the result come only from the  *)
(* replies dequeued in this measurement, whatever earlier measurements     *)
(* left behind.                                                            *)
(***************************************************************************)
C9_ResetBeforeFirstRequest ==
    /\ [][(pc = "hdr_recv" /\ pc' = "chunk_recv") =>
             /\ frames' = <<>>
             /\ spd_bytes' = <<>>
             /\ chunks_received' = {}
             /\ chunk_info_list' = <<>>
             /\ result'.chunks = <<>>
             /\ Len(sent') = Len(sent) + 1
             /\ sent'[Len(sent')][3] = 16]_vars
    /\ []((IsMeasurement /\ (pc = "chunk_recv" \/ MeasurementReturned)) =>
             /\ chunks_received \subseteq
                    {ReplySubcmd(i) : i \in 1..Len(replies)}
             /\ Len(chunk_info_list) <= Len(replies)
             /\ Len(spd_bytes) = 48 * Cardinality(chunks_received \ {19})
             /\ \A k \in 1..(Len(spd_bytes) \div 48) :
                    \E i \in 1..Len(replies) :
                        SubSeq(spd_bytes, 48 * k - 47, 48 * k) = ReplyData(i)
             /\ MeasurementReturned => result.spd_bytes = spd_bytes)

\* a measurement whose start threw away a queued frame and the bytes of an
\* earlier measurement has returned a result with bytes of its own
C9_Witness ==
    /\ MeasurementReturned
    /\ discarded.queued > 0
    /\ discarded.bytes > 0
    /\ Len(replies) = 1
    /\ result.spd_bytes = ReplyData(1)


(***************************************************************************)
(* The handshake that connect() runs: CR30Device.handshake.  The           *)
(* behaviour starts in connect's sleep, the receive loop already running.  *)
(***************************************************************************)

\* how many chunks the receive loop reads while a handshake is followed
MaxHandshakeReads == 3

\* bytes.decode('ascii', errors='ignore'): the bytes above 0x7F are dropped
DecodeAscii(bytes) == SelectSeq(bytes, LAMBDA b : b < 128)

RECURSIVE LStripNul(_)
LStripNul(str) ==
    IF str # <<>> /\ Head(str) = 0 THEN LStripNul(Tail(str)) ELSE str

RECURSIVE RStripNul(_)
RStripNul(str) ==
    IF str # <<>> /\ str[Len(str)] = 0
    THEN RStripNul(SubSeq(str, 1, Len(str) - 1))
    ELSE str

\* .decode('ascii', errors='ignore').strip('\x00'); a string is the
\* sequence of its code points
AsciiStrip(bytes) == RStripNul(LStripNul(DecodeAscii(bytes)))

_parse_name(id, data) ==
    [id EXCEPT !.name = AsciiStrip(Slice(data, 5, 30)),
               !.model = AsciiStrip(Slice(data, 35, 45))]

\* " - " is <<32, 45, 32>>; data[-7:] is the last 7 bytes
_parse_serial_number(id, data) ==
    [id EXCEPT !.serial = AsciiStrip(Slice(data, 16, 30)) \o <<32, 45, 32>>
                          \o AsciiStrip(Slice(data, Max(Len(data) - 7, 0),
                                              Len(data)))]

_parse_firmware(id, data) ==
    [id EXCEPT !.build = AsciiStrip(Slice(data, 1, 20)),
               !.firmware = AsciiStrip(Slice(data, 20, 30))]

\* b'Check' + b'\x00'*7
CheckData == <<67, 104, 101, 99, 107, 0, 0, 0, 0, 0, 0, 0>>

\* the send_recv calls of handshake, in program order; parse names the
\* parser of aa_commands, "none" where the reply is not looked at
HandshakeCommands ==
    << [start |-> START_AA, cmd |-> 10, subcmd |-> 0, param |-> 0,
        data |-> <<>>, parse |-> "name"],
       [start |-> START_AA, cmd |-> 10, subcmd |-> 1, param |-> 0,
        data |-> <<>>, parse |-> "serial"],
       [start |-> START_AA, cmd |-> 10, subcmd |-> 2, param |-> 0,
        data |-> <<>>, parse |-> "firmware"],
       [start |-> START_AA, cmd |-> 10, subcmd |-> 3, param |-> 0,
        data |-> <<>>, parse |-> "none"],
       [start |-> START_BB, cmd |-> 23, subcmd |-> 0, param |-> 0,
        data |-> <<>>, parse |-> "none"],
       [start |-> START_BB, cmd |-> 19, subcmd |-> 0, param |-> 0,
        data |-> CheckData, parse |-> "none"],
       [start |-> START_BB, cmd |-> 40, subcmd |-> 0, param |-> 0,
        data |-> <<>>, parse |-> "none"],
       [start |-> START_BB, cmd |-> 40, subcmd |-> 0, param |-> 1,
        data |-> <<>>, parse |-> "none"],
       [start |-> START_BB, cmd |-> 40, subcmd |-> 0, param |-> 2,
        data |-> <<>>, parse |-> "none"],
       [start |-> START_BB, cmd |-> 40, subcmd |-> 0, param |-> 3,
        data |-> <<>>, parse |-> "none"],
       [start |-> START_BB, cmd |-> 40, subcmd |-> 0, param |-> 255,
        data |-> <<>>, parse |-> "none"] >>

HandshakePacket(i) ==
    LET c == HandshakeCommands[i]
    IN  build_packet(c.start, c.cmd, c.subcmd, c.param, c.data)

\* a handshake that gives up at the first query without a usable reply
NextHandshakeStepAbort(i, usable) ==
    IF usable THEN i + 1 ELSE Len(HandshakeCommands) + 1

\* the control of handshake: "continue" after a failed or incomplete
\* reply, and straight-line code after the loop; the next call is the same
\* whatever the reply
NextHandshakeStep(i, usable) == i + 1

\* the body of "for subcmd, parse in aa_commands" below send_recv:
\* the identity after the reply (<<>> for None) to command i
HandshakeParse(id, i, response) ==
    LET parse == HandshakeCommands[i].parse
    IN  IF response = <<>> \/ Len(response) < PACKET_SIZE THEN id
        ELSE IF parse = "name" THEN _parse_name(id, extract_payload(response))
        ELSE IF parse = "serial"
             THEN _parse_serial_number(id, extract_payload(response))
        ELSE IF parse = "firmware"
             THEN _parse_firmware(id, extract_payload(response))
        ELSE id

\* a reply that carries text: letters between NUL bytes
IdentityFrame ==
    build_packet(START_AA, 10, 0, 0,
                 [i \in 1..PAYLOAD_SIZE |->
                     IF i % 5 = 0 THEN 0 ELSE 64 + (i % 26)])

\* what readexactly(60) returns during the handshake
HandshakeChunks == {IdentityFrame, InfoFrame, HeaderFrame, BadMarkerFrame}

HandshakeInit ==
    /\ frames = <<>>
    /\ running = TRUE
    /\ reads = 0
    /\ spd_bytes = <<>>
    /\ chunks_received = {}
    /\ chunk_info_list = <<>>
    /\ identity = NoIdentity
    /\ pc = "connect_sleep"
    /\ op = "connect"
    /\ step = 0
    /\ sent = <<>>
    /\ replies = <<>>
    /\ result = <<>>
    /\ outcome = "none"
    /\ ops = 0
    /\ discarded = [queued |-> 0, bytes |-> 0]
    /\ CodecIdle
    /\ OthersIdle

\* the receive loop beside connect(); reads after connect has returned are
\* not followed
HandshakeReceive ==
    /\ pc # "idle"
    /\ reads < MaxHandshakeReads
    /\ \E data \in HandshakeChunks : ReceiveChunk(data)

\* connect's sleep ends: handshake flushes the queue and writes the first
\* command
HandshakeBegin ==
    /\ pc = "connect_sleep"
    /\ frames' = flush_recv(frames)
    /\ discarded' = [queued |-> Len(frames), bytes |-> 0]
    /\ sent' = <<HandshakePacket(1)>>
    /\ step' = 1
    /\ pc' = "hs_recv"
    /\ UNCHANGED <<running, reads, spd_bytes, chunks_received,
                   chunk_info_list, identity, op, replies, result, outcome,
                   ops, codecVars, otherVars>>

\* from the return of recv in send_recv to the next wait: the reply is
\* looked at, and the next command is written or handshake returns
HandshakeAdvance(response) ==
    LET usable == response # <<>> /\ Len(response) >= PACKET_SIZE
        next == NextHandshakeStep(step, usable)
    IN  /\ identity' = HandshakeParse(identity, step, response)
        /\ step' = next
        /\ IF next <= Len(HandshakeCommands)
           THEN /\ sent' = Append(sent, HandshakePacket(next))
                /\ pc' = "hs_recv"
                /\ outcome' = outcome
           ELSE /\ sent' = sent
                /\ pc' = "idle"
                /\ outcome' = "connected"
        /\ UNCHANGED <<running, reads, spd_bytes, chunks_received,
                       chunk_info_list, op, result, ops, discarded,
                       codecVars, otherVars>>

\* recv returns the head of the queue
HandshakeRecv ==
    /\ pc = "hs_recv" /\ frames # <<>>
    /\ frames' = Tail(frames)
    /\ replies' = Append(replies, Head(frames))
    /\ HandshakeAdvance(Head(frames))

\* recv's wait_for expires on an empty queue: None
HandshakeTimeout ==
    /\ pc = "hs_recv" /\ frames = <<>>
    /\ UNCHANGED <<frames, replies>>
    /\ HandshakeAdvance(<<>>)

HandshakeClient == HandshakeBegin \/ HandshakeRecv \/ HandshakeTimeout

HandshakeNext == HandshakeReceive \/ HandshakeClient

\* every wait of handshake is bounded (sleep(1), wait_for with timeout 1.0),
\* so the coroutine always takes its next step
HandshakeSpec ==
    HandshakeInit /\ [][HandshakeNext]_vars /\ WF_vars(HandshakeClient)

\* the fields of a written command the handshake sets
CommandFields(packet) ==
    <<PktStart(packet), PktCmd(packet), PktSubcmd(packet), PktParam(packet),
      Slice(PktPayload(packet), 0, 12)>>

\* the sequence the handshake is to send: four identity queries, the
\* initialisation, the check, five parameter queries
ExpectedHandshake ==
    << <<170, 10, 0, 0, Zeros(12)>>, <<170, 10, 1, 0, Zeros(12)>>,
       <<170, 10, 2, 0, Zeros(12)>>, <<170, 10, 3, 0, Zeros(12)>>,
       <<187, 23, 0, 0, Zeros(12)>>,
       <<187, 19, 0, 0, <<67, 104, 101, 99, 107>> \o Zeros(7)>>,
       <<187, 40, 0, 0, Zeros(12)>>, <<187, 40, 0, 1, Zeros(12)>>,
       <<187, 40, 0, 2, Zeros(12)>>, <<187, 40, 0, 3, Zeros(12)>>,
       <<187, 40, 0, 255, Zeros(12)>> >>

SentFields == [i \in 1..Len(sent) |-> CommandFields(sent[i])]

\* C10: whatever the queries get (a frame, or a timeout), the handshake
\* writes the fixed command sequence in order, each command a valid packet
\* with a zero payload but for 'Check', and then completes: what is written
\* is always a prefix of the sequence, and the whole of it is eventually
\* written and connect returns.
C10_HandshakeSequence ==
    /\ [](op = "connect" =>
            /\ Len(sent) <= Len(ExpectedHandshake)
            /\ SentFields = SubSeq(ExpectedHandshake, 1, Len(sent))
            /\ \A i \in 1..Len(sent) :
                  /\ is_valid_packet(sent[i])
                  /\ Slice(PktPayload(sent[i]), 12, PAYLOAD_SIZE)
                        = Zeros(PAYLOAD_SIZE - 12)
            /\ (pc = "idle" => SentFields = ExpectedHandshake))
    /\ <>(pc = "idle" /\ outcome = "connected"
          /\ SentFields = ExpectedHandshake)

\* C10 witness: a handshake completed in which one query timed out, another
\* got a frame, and a reply set the device name
C10_Witness ==
    /\ op = "connect" /\ pc = "idle" /\ outcome = "connected"
    /\ Len(sent) = 11
    /\ Len(replies) \in 1..10
    /\ identity.name # <<>>


(***************************************************************************)
(* The device on its own: CR30Device's receive task beside coroutines      *)
(* that call recv and send_recv, with short reads and disconnect.          *)
(***************************************************************************)

\* how many chunks the receive loop reads while the device is followed
MaxDeviceReads == 3

\* the session's variables the device on its own leaves alone
sessionRest == <<spd_bytes, chunks_received, chunk_info_list, identity, pc,
                 op, step, sent, replies, result, outcome, ops, discarded>>

\* what readexactly(60) returns: two different valid frames and a chunk
\* that is no frame
DeviceChunks == {HeaderFrame, InfoFrame, BadStartFrame}

\* a queue that hands out the newest item first (asyncio.LifoQueue)
PutFirst(q, data) == <<data>> \o q

\* asyncio.Queue.put on the unbounded _frames: the item goes to the end
Put(q, data) == Append(q, data)

\* recv turning the timeout of wait_for into an error of its own
TimeoutRaises == [kind |-> "TimeoutError"]

\* recv's "except asyncio.TimeoutError: return None"
TimeoutOutcome == [kind |-> "none"]

\* one turn of _receive_loop: a chunk is read; a valid one is queued
DeviceReceive(data) ==
    /\ loop = "reading" /\ running
    /\ reads < MaxDeviceReads
    /\ wire' = Append(wire, data)
    /\ frames' = IF is_valid_packet(data) THEN Put(frames, data) ELSE frames
    /\ reads' = reads + 1
    /\ UNCHANGED <<running, returned, loop, closed, callers, written,
                   sessionRest, codecVars, packetVars, laterVars>>

\* the stream ends before 60 bytes are there: readexactly raises
\* IncompleteReadError, "except Exception" prints it and the task ends.
\* Nothing else is assigned: _running stays as it is.
DeviceShortRead ==
    /\ loop = "reading" /\ running
    /\ loop' = "ended"
    /\ UNCHANGED <<frames, running, reads, wire, returned, closed, callers,
                   written, sessionRest, codecVars, packetVars, laterVars>>

\* the command each caller's send_recv carries: 0x01 is the call measure
\* makes, 0x10 the call of calibrate
CallerCmd == [c \in Callers |-> IF c = "first" THEN 1 ELSE 16]

\* send_recv up to the wait in recv: the packet is built and written once.
\* seen notes how many frames had been put in the queue when it was written.
SendRecvCall(c, cmd) ==
    /\ callers[c].pc = "idle"
    /\ running /\ ~closed
    /\ written' = Append(written,
                         [by |-> c,
                          packet |-> build_packet(START_BB, cmd, 0, 0, <<>>),
                          seen |-> Len(returned) + Len(frames)])
    /\ callers' = [callers EXCEPT ![c] =
                      [pc |-> "recv", call |-> "send_recv", timed |-> TRUE,
                       out |-> [kind |-> "pending"]]]
    /\ UNCHANGED <<frames, running, reads, wire, returned, loop, closed,
                   sessionRest, codecVars, packetVars, laterVars>>

\* recv(timeout) entered; timed is FALSE for timeout=None
RecvCall(c, timed) ==
    /\ callers[c].pc = "idle"
    /\ running /\ ~closed
    /\ callers' = [callers EXCEPT ![c] =
                      [pc |-> "recv", call |-> "recv", timed |-> timed,
                       out |-> [kind |-> "pending"]]]
    /\ UNCHANGED <<frames, running, reads, wire, returned, loop, closed,
                   written, sessionRest, codecVars, packetVars, laterVars>>

\* _frames.get() completes: the caller gets the head of the queue.
\* nth notes which of the frames put in the queue it is.
RecvReturn(c) ==
    /\ callers[c].pc = "recv" /\ frames # <<>>
    /\ frames' = Tail(frames)
    /\ returned' = Append(returned, Head(frames))
    /\ callers' = [callers EXCEPT ![c].pc = "done",
                                  ![c].out = [kind |-> "frame",
                                              nth |-> Len(returned) + 1]]
    /\ UNCHANGED <<running, reads, wire, loop, closed, written, sessionRest,
                   codecVars, packetVars, laterVars>>

\* wait_for expires on an empty queue
RecvTimeout(c) ==
    /\ callers[c].pc = "recv" /\ callers[c].timed /\ frames = <<>>
    /\ callers' = [callers EXCEPT ![c].pc = "done", ![c].out = TimeoutOutcome]
    /\ UNCHANGED <<frames, running, reads, wire, returned, loop, closed,
                   written, sessionRest, codecVars, packetVars, laterVars>>

\* disconnect up to "await self._receive_task": _running is cleared and the
\* task cancelled; the task, suspended in readexactly, ends with
\* CancelledError before it reads again
Disconnect ==
    /\ running /\ ~closed
    /\ running' = FALSE
    /\ loop' = IF loop = "reading" THEN "cancelled" ELSE loop
    /\ UNCHANGED <<frames, reads, wire, returned, closed, callers, written,
                   sessionRest, codecVars, packetVars, laterVars>>

\* the rest of disconnect: writer.close() and wait_closed()
DisconnectClose ==
    /\ ~running /\ ~closed
    /\ closed' = TRUE
    /\ UNCHANGED <<frames, running, reads, wire, returned, loop, callers,
                   written, sessionRest, codecVars, packetVars, laterVars>>

DeviceReceiveLoop == \E data \in DeviceChunks : DeviceReceive(data)

DeviceCalls ==
    \E c \in Callers :
        \/ SendRecvCall(c, CallerCmd[c])
        \/ \E timed \in BOOLEAN : RecvCall(c, timed)

DeviceReturns == \E c \in Callers : RecvReturn(c) \/ RecvTimeout(c)

DeviceNext ==
    \/ DeviceReceiveLoop
    \/ DeviceShortRead
    \/ DeviceCalls
    \/ DeviceReturns
    \/ Disconnect
    \/ DisconnectClose

\* the event loop runs every coroutine that can go on: a get that can
\* complete, a timer that has expired, disconnect after its await
DeviceSpec ==
    /\ Init
    /\ [][DeviceNext]_vars
    /\ \A c \in Callers : WF_vars(RecvReturn(c) \/ RecvTimeout(c))
    /\ WF_vars(DisconnectClose)


\* the positions in the write log of the packets caller c has written
WritesBy(c, log) == {i \in DOMAIN log : log[i].by = c}

\* C11: send_recv writes its frame exactly once, at the call, and writes
\* nothing while it waits or after it has returned; when its wait expires on
\* an empty queue it returns none (no error) and nothing is written.
C11_SendRecvOnce ==
    /\ [](\A c \in Callers :
            callers[c].call = "send_recv"
               => /\ Cardinality(WritesBy(c, written)) = 1
                  /\ callers[c].out.kind \in {"pending", "frame", "none"})
    /\ [][\A c \in Callers :
            /\ callers[c].pc # "idle"
                  => WritesBy(c, written') = WritesBy(c, written)
            /\ (/\ callers[c].call = "send_recv"
                /\ callers[c].pc = "recv" /\ callers'[c].pc = "done"
                /\ frames = <<>>)
                  => /\ callers'[c].out = [kind |-> "none"]
                     /\ written' = written
                     /\ frames' = frames]_vars

\* C11 witness: a send_recv whose wait expired has returned none, its
\* packet written once
C11_Witness ==
    \E c \in Callers :
        /\ callers[c].call = "send_recv" /\ callers[c].pc = "done"
        /\ callers[c].out.kind = "none"
        /\ Cardinality(WritesBy(c, written)) = 1

\* the valid chunks among those read, in the order read
ValidChunks(log) == SelectSeq(log, is_valid_packet)

\* C13: whatever chunks are read, the frames returned so far followed by
\* the frames still queued are exactly the valid chunks in the order read
\* (each once, none of the invalid ones), and reading a chunk, valid or
\* not, leaves the loop reading.
C13_FifoOfValidChunks ==
    /\ [](returned \o frames = ValidChunks(wire))
    /\ [][wire' # wire => loop' = "reading" /\ running']_vars

\* C13 witness: an invalid chunk and then two different valid ones were
\* read, and two recv calls returned the valid ones in that order
C13_Witness ==
    /\ wire = <<BadStartFrame, HeaderFrame, InfoFrame>>
    /\ returned = <<HeaderFrame, InfoFrame>>
    /\ \A c \in Callers : callers[c].pc = "done"
    /\ loop = "reading"

\* C15: at most one send_recv is waiting for its reply at any time.
C15_OneOutstanding ==
    Cardinality({c \in Callers : /\ callers[c].call = "send_recv"
                                 /\ callers[c].pc = "recv"}) <= 1

\* C28: the frame send_recv returns was put in the queue after send_recv
\* wrote its request: a frame that was waiting in the queue at the call is
\* never returned as the reply.
C28_ReplyEnqueuedAfterWrite ==
    \A c \in Callers :
        (callers[c].call = "send_recv" /\ callers[c].out.kind = "frame")
            => \A i \in WritesBy(c, written) :
                   callers[c].out.nth > written[i].seen

\* C16: once disconnect has closed the transport, the reader has stopped
\* and every wait that was in progress comes to an end.
C16_WaitsUnwind ==
    /\ [](closed => loop # "reading")
    /\ [][closed => frames' = frames \/ frames' = Tail(frames)]_vars
    /\ [](closed => <>(\A c \in Callers : callers[c].pc # "recv"))

\* C17: after a short read has ended the receive loop, nothing more is
\* queued and the device is no longer running.
C17_ShortReadDisconnects ==
    /\ [][loop = "ended" => wire' = wire]_vars
    /\ [](loop = "ended" => ~running)


(***************************************************************************)
(* The session again: timeouts, calibration, and what leaves the queue     *)
(***************************************************************************)

\* C12: when the wait of wait_measurement expires on an empty queue,
\* wait_measurement ends with a "no data" outcome, not with an error.
C12_ExpiryYieldsNoData ==
    (op = "wait_measurement" /\ pc = "idle")
        => outcome \notin {"TimeoutError", "ValueError"}

\* C12 as the code has it: when the wait of wait_measurement expires on an
\* empty queue, wait_measurement raises asyncio.TimeoutError; it has
\* written nothing, returns no result and leaves the accumulator alone.
C12_ExpiryRaisesTimeout ==
    [][(/\ op = "wait_measurement"
        /\ pc = "hdr_recv" /\ frames = <<>> /\ pc' = "idle")
          => /\ outcome' = "TimeoutError"
             /\ sent' = <<>> /\ result' = <<>>
             /\ spd_bytes' = spd_bytes
             /\ chunks_received' = chunks_received]_vars

\* C12 witness: a wait_measurement whose wait expired has ended
C12_Witness ==
    /\ op = "wait_measurement" /\ pc = "idle"
    /\ outcome = "TimeoutError" /\ sent = <<>> /\ result = <<>>

\* C14: a frame the reader queued while no request was waiting is never
\* removed from the queue other than by being returned: in a session whose
\* first operation is wait_measurement, which writes nothing before its
\* flush, the flush finds nothing to discard.
C14_UnsolicitedKept ==
    (ops = 1 /\ op = "wait_measurement") => discarded.queued = 0

\* C14 as the code has it: the reader only appends to the queue; a frame
\* leaves it either from the head, returned to the waiting operation
\* (calibrate's reply, a chunk reply), or in the flush that follows the
\* dequeuing of a measurement's header, which returns the head as the
\* header and discards every other queued frame.
C14_ReturnedOrFlushed ==
    [][\/ frames' = frames
       \/ /\ Len(frames') = Len(frames) + 1
          /\ SubSeq(frames', 1, Len(frames)) = frames
          /\ is_valid_packet(frames'[Len(frames')])
       \/ /\ frames # <<>> /\ frames' = Tail(frames)
          /\ \/ pc = "cal_recv" /\ result'.raw_response = Head(frames)
             \/ pc = "chunk_recv" /\ replies' = Append(replies, Head(frames))
       \/ /\ pc = "hdr_recv" /\ frames # <<>> /\ frames' = <<>>
          /\ result'.header = HeaderInfo(Head(frames))
          /\ discarded'.queued = Len(frames) - 1]_vars

\* C14 witness: a wait_measurement, the first operation of the session,
\* whose flush discarded a queued frame
C14_Witness ==
    /\ ops = 1 /\ op = "wait_measurement"
    /\ discarded.queued > 0
    /\ result # <<>>

\* C18: calibrate writes exactly one command, 0xBB/0x10 (black) or
\* 0xBB/0x11 (white), and never a second one; with a reply it returns
\* success = (payload[1] = 0x01) and status_byte = payload[1] of that reply;
\* without one it fails with TimeoutError.
C18_CalibrateOnce ==
    /\ CalibrateCmd(FALSE) = 16 /\ CalibrateCmd(TRUE) = 17
    /\ op = "calibrate" =>
          /\ Len(sent) = 1
          /\ is_valid_packet(sent[1])
          /\ sent[1][1] = 187 /\ sent[1][2] \in {16, 17}
          /\ sent[1][3] = 0 /\ sent[1][4] = 0
          /\ pc = "idle" => outcome \in {"result", "TimeoutError"}
          /\ (pc = "idle" /\ outcome = "result") =>
                /\ result.status_byte = result.raw_response[6]
                /\ result.success = (result.raw_response[6] = 1)
          /\ (pc = "idle" /\ outcome = "TimeoutError") => result = <<>>

\* C18 witness: a calibration, the second operation of the session, got no
\* reply and failed with TimeoutError, its command written once
C18_Witness ==
    /\ op = "calibrate" /\ pc = "idle" /\ ops = 2
    /\ outcome = "TimeoutError" /\ Len(sent) = 1


(***************************************************************************)
(* The checksum of encoded frames                                          *)
(***************************************************************************)

\* the sum of bytes 0 .. n-1 of a frame, stated on its own
RECURSIVE ByteSum(_, _)
ByteSum(frame, n) == IF n = 0 THEN 0 ELSE frame[n] + ByteSum(frame, n - 1)

\* C19: byte 59 of every encoded frame is the sum of bytes 0 through 58
\* modulo 256 for a 0xAA frame, and that sum minus 1 modulo 256 for a 0xBB
\* frame.
C19_ChecksumOverBytes0To58 ==
    (cstage = "encoded") =>
        cbuf[60] = IF cbuf[1] = 187 THEN (ByteSum(cbuf, 59) - 1) % 256
                   ELSE ByteSum(cbuf, 59) % 256



(***************************************************************************)
(* A CR30Packet under assignment: any sequence of assignments to start,    *)
(* cmd, subcmd, param, payload and marker, and to_bytes, on a packet that  *)
(* is new, made from 60 bytes, or (as build_packet does) encoded.          *)
(***************************************************************************)

\* how many assignments a packet is followed through
MaxSets == 3

\* marker.setter: the value is checked against the start byte the packet
\* has now
SetMarkerOk(d, value) ==
    /\ ~(PktStart(d) = START_AA /\ value # MARKER_FF)
    /\ ~(PktStart(d) = START_BB /\ value \notin {0, MARKER_FF})

\* marker.setter after the check
SetMarker(d, value) == SetAt(d, 58, value)

\* 60-byte buffers CR30Packet(data) can be made from: a valid frame, one
\* with a start byte that is none, and frames with markers they may not have
PacketSources ==
    {HeaderFrame, BadStartFrame, BadMarkerFrame, SetAt(HeaderFrame, 58, 85)}

\* the values assigned: accepted ones, rejected ones, and one above 255
\* for the fields that are masked
StartValues == {START_AA, START_BB, 204}

FieldValues == {1, 300}

MarkerValues == {0, MARKER_FF, 85}

PayloadValues == {PatternBytes(2, 200), PatternBytes(PAYLOAD_SIZE + 1, 1)}

\* CR30Packet() or CR30Packet(data)
PacketInit ==
    /\ SessionIdle /\ CodecIdle /\ DeviceIdle /\ LaterIdle
    /\ pkt_data \in {NewPacket} \cup {data \in PacketSources :
                                        InitFromBytesOk(data)}
    /\ assigned = FALSE
    /\ last_set = [name |-> "none", ok |-> TRUE, before |-> <<>>]
    /\ sets = 0

\* an assignment: the setter raises before it touches _data, or it
\* assigns
PacketSet(name, ok, after) ==
    /\ sets < MaxSets
    /\ pkt_data' = IF ok THEN after ELSE pkt_data
    /\ assigned' = (assigned \/ (name = "start" /\ ok))
    /\ last_set' = [name |-> name, ok |-> ok, before |-> pkt_data]
    /\ sets' = sets + 1
    /\ UNCHANGED <<sessionVars, codecVars, deviceVars, laterVars>>

PacketSetStart ==
    \E value \in StartValues :
        PacketSet("start", SetStartOk(value), SetStart(pkt_data, value))

PacketSetCmd ==
    \E value \in FieldValues : PacketSet("cmd", TRUE, SetCmd(pkt_data, value))

PacketSetSubcmd ==
    \E value \in FieldValues :
        PacketSet("subcmd", TRUE, SetSubcmd(pkt_data, value))

PacketSetParam ==
    \E value \in FieldValues :
        PacketSet("param", TRUE, SetParam(pkt_data, value))

PacketSetPayload ==
    \E value \in PayloadValues :
        PacketSet("payload", SetPayloadOk(value), SetPayload(pkt_data, value))

PacketSetMarker ==
    \E value \in MarkerValues :
        PacketSet("marker", SetMarkerOk(pkt_data, value),
                  SetMarker(pkt_data, value))

\* to_bytes: the checksum byte of the object is rewritten
PacketToBytes == PacketSet("to_bytes", TRUE, to_bytes(pkt_data))

\* build_packet: a new packet, start assigned first, then the other fields
PacketEncode ==
    \E start \in {START_AA, START_BB}, value \in FieldValues :
        /\ sets < MaxSets
        /\ pkt_data' = build_packet(start, value, 0, 0, PatternBytes(2, 200))
        /\ assigned' = TRUE
        /\ last_set' = [name |-> "build_packet", ok |-> TRUE,
                        before |-> pkt_data]
        /\ sets' = sets + 1
        /\ UNCHANGED <<sessionVars, codecVars, deviceVars, laterVars>>

PacketNext ==
    \/ PacketSetStart
    \/ PacketSetCmd
    \/ PacketSetSubcmd
    \/ PacketSetParam
    \/ PacketSetPayload
    \/ PacketSetMarker
    \/ PacketToBytes
    \/ PacketEncode

PacketSpec == PacketInit /\ [][PacketNext]_vars

\* C20: once start has been assigned successfully (build_packet does so
\* first), whatever is assigned afterwards, byte 58 is 0xFF when byte 0 is
\* 0xAA and 0x00 or 0xFF when byte 0 is 0xBB, and is_valid holds; and an
\* assignment that was rejected has left all 60 bytes as they were.
C20_MarkerInvariant ==
    /\ assigned =>
          /\ Len(pkt_data) = 60
          /\ pkt_data[1] \in {170, 187}
          /\ pkt_data[1] = 170 => pkt_data[59] = 255
          /\ pkt_data[1] = 187 => pkt_data[59] \in {0, 255}
          /\ is_valid(pkt_data)
    /\ ~last_set.ok => pkt_data = last_set.before

\* C20 witness: after start was assigned, a 0xBB packet whose marker was
\* 0xFF has been assigned the marker 0x00, its last assignment
C20_Witness ==
    /\ assigned /\ sets = MaxSets /\ last_set.ok
    /\ last_set.name = "marker"
    /\ pkt_data[1] = 187 /\ pkt_data[59] = 0
    /\ last_set.before[59] = 255


(***************************************************************************)
(* A buffer is handed to PacketParser.parse_packet; verify_checksum,       *)
(* to_bytes and to_hex are then called on the CR30Packet it returned       *)
(***************************************************************************)
MaxFrameCalls == 3

\* a device frame whose marker byte is 0x00
UnmarkedFrame == SetAt(HeaderFrame, 58, 0)

\* a 0xBB frame whose marker byte is neither 0x00 nor 0xFF
OddMarkerFrame == SetAt(HeaderFrame, 58, 85)

\* the buffers parse_packet is given: frames of both start bytes, frames
\* whose checksum byte is wrong, buffers of 0, 59 and 61 bytes, and
\* 60-byte buffers with a wrong start byte or a wrong marker
DecodeInputs ==
    ChunkFrames \cup
    {HeaderFrame, InfoFrame, UnmarkedFrame, CorruptFrame,
     SetAt(InfoFrame, 59, 0), SetAt(UnmarkedFrame, 59, 7),
     <<>>, Slice(HeaderFrame, 0, 59), Append(InfoFrame, 0),
     BadStartFrame, SetAt(InfoFrame, 0, 0), Zeros(PACKET_SIZE),
     BadMarkerFrame, OddMarkerFrame}

\* bytes.hex(' ').upper(): each byte is spelled by its two hex digits
ToHex(bytes) == [i \in 1..Len(bytes) |-> <<bytes[i] \div 16, bytes[i] % 16>>]

\* to_hex: the string to_bytes spells
to_hex(d) == ToHex(to_bytes(d))

DecodeInit ==
    /\ SessionIdle /\ CodecIdle /\ DeviceIdle /\ PacketIdle /\ ParserIdle
    /\ ObserversIdle /\ ColorIdle
    /\ rx_in \in DecodeInputs
    /\ rx_out = [kind |-> "none"]
    /\ rx_data = <<>>
    /\ rx_last = [name |-> "none", value |-> <<>>]
    /\ rx_calls = 0

\* parse_packet: CR30Packet(packet) copies the buffer into a bytearray;
\* every failure leaves as ValueError
DecodeParse ==
    /\ rx_out.kind = "none"
    /\ IF ParsePacketOk(rx_in)
       THEN /\ rx_out' = [kind |-> "frame"]
            /\ rx_data' = parse_packet(rx_in)
       ELSE /\ rx_out' = [kind |-> "ValueError"]
            /\ rx_data' = rx_data
    /\ UNCHANGED <<rx_in, rx_last, rx_calls,
                   sessionVars, codecVars, deviceVars, packetVars, parserVars,
                   observerVars, colorVars>>

\* a method of the returned packet is called: what it returns, and what it
\* leaves in _data
DecodeCall(name, value, after) ==
    /\ rx_out.kind = "frame"
    /\ rx_calls < MaxFrameCalls
    /\ rx_last' = [name |-> name, value |-> value]
    /\ rx_data' = after
    /\ rx_calls' = rx_calls + 1
    /\ UNCHANGED <<rx_in, rx_out,
                   sessionVars, codecVars, deviceVars, packetVars, parserVars,
                   observerVars, colorVars>>

DecodeVerify ==
    DecodeCall("verify_checksum", <<verify_checksum(rx_data)>>,
               calculate_checksum(rx_data))

DecodeToBytes ==
    DecodeCall("to_bytes", to_bytes(rx_data), calculate_checksum(rx_data))

DecodeToHex ==
    DecodeCall("to_hex", to_hex(rx_data), calculate_checksum(rx_data))

DecodeNext ==
    \/ DecodeParse
    \/ DecodeVerify
    \/ DecodeToBytes
    \/ DecodeToHex

DecodeSpec == DecodeInit /\ [][DecodeNext]_vars

\* C21: parse_packet fails with ValueError for every buffer whose length is
\* not 60, whose first byte is neither 0xAA nor 0xBB, or whose byte 58
\* breaks the marker rule (0xFF after 0xAA; 0x00 or 0xFF after 0xBB), and
\* returns a frame for every other buffer, which holds the buffer's bytes
\* when it is returned.
C21_MalformedExactly ==
    LET malformed ==
            \/ Len(rx_in) # 60
            \/ rx_in[1] \notin {170, 187}
            \/ (rx_in[1] = 170 /\ rx_in[59] # 255)
            \/ (rx_in[1] = 187 /\ rx_in[59] \notin {0, 255})
    IN  rx_out.kind # "none" =>
            IF malformed
            THEN rx_out.kind = "ValueError" /\ rx_data = <<>>
            ELSE rx_out.kind = "frame" /\ (rx_calls = 0 => rx_data = rx_in)

\* parse_packet has refused a 60-byte buffer that starts with 0xBB for its
\* marker byte alone
C21_Witness ==
    /\ rx_out.kind = "ValueError"
    /\ Len(rx_in) = 60
    /\ rx_in[1] = 187
    /\ rx_in[59] \notin {0, 255}

\* C22: verify_checksum, to_bytes and to_hex leave all 60 bytes of a decoded
\* frame as they were received, the stored checksum byte included when it
\* is not the computed one.
C22_FrameAsReceived ==
    (rx_out.kind = "frame" /\ rx_calls > 0) => rx_data = rx_in

(***************************************************************************)
(* A PacketParser on its own: reset_spd_collection and parse_spd_chunk in  *)
(* any order, on replies it accepts and on replies it refuses              *)
(***************************************************************************)
MaxParserCalls == 5

\* the parser's three fields as one value
ParserState == [bytes |-> spd_bytes, received |-> chunks_received,
                infos |-> chunk_info_list]

\* a parse_spd_chunk that records the subcommand of every frame it could
\* decode, before it looks at it
ParseSpdChunkEager(st, packet) ==
    IF ParseSpdChunkOk(packet, st.received)
    THEN [bytes |-> st.bytes \o ChunkSpdData(packet),
          received |-> st.received \cup {PktSubcmd(packet)},
          infos |-> Append(st.infos, ChunkInfo(packet))]
    ELSE IF ParsePacketOk(packet)
    THEN [st EXCEPT !.received = @ \cup {PktSubcmd(packet)}]
    ELSE st

\* parse_spd_chunk: the three fields it leaves.  Every raise (parse_packet,
\* the duplicate, the unknown subcommand) precedes the first assignment.
parse_spd_chunk(st, packet) ==
    IF ParseSpdChunkOk(packet, st.received)
    THEN [bytes |-> st.bytes \o ChunkSpdData(packet),
          received |-> st.received \cup {PktSubcmd(packet)},
          infos |-> Append(st.infos, ChunkInfo(packet))]
    ELSE st

\* what parse_spd_chunk is given: the four chunk replies, a second reply
\* to the 0x10 request, replies with a subcommand outside 0x10..0x13, and a
\* chunk that is no frame
ParserChunks ==
    ChunkFrames \cup {DeviceFrame(SUB_10, 99), DeviceFrame(20, 20),
                      DeviceFrame(15, 15), BadStartFrame}

ParserInit ==
    /\ SessionIdle /\ CodecIdle /\ DeviceIdle /\ PacketIdle /\ DecodeIdle
    /\ ObserversIdle /\ ColorIdle
    /\ p_last = [call |-> "none"]
    /\ p_calls = 0

ParserCall(last, st) ==
    /\ p_calls < MaxParserCalls
    /\ p_last' = last
    /\ p_calls' = p_calls + 1
    /\ spd_bytes' = st.bytes
    /\ chunks_received' = st.received
    /\ chunk_info_list' = st.infos
    /\ UNCHANGED <<frames, running, reads, identity, pc, op, step, sent,
                   replies, result, outcome, ops, discarded,
                   codecVars, deviceVars, packetVars, decodeVars,
                   observerVars, colorVars>>

ParserReset ==
    ParserCall([call |-> "reset_spd_collection"], reset_spd_collection)

ParserParseChunk ==
    \E packet \in ParserChunks :
        ParserCall([call |-> "parse_spd_chunk", packet |-> packet,
                    before |-> ParserState,
                    ok |-> ParseSpdChunkOk(packet, chunks_received)],
                   parse_spd_chunk(ParserState, packet))

ParserNext ==
    \/ ParserReset
    \/ ParserParseChunk

ParserSpec == ParserInit /\ [][ParserNext]_vars

\* C23: parse_spd_chunk raises for a reply whose subcommand has already been
\* consumed and for a reply whose subcommand is not in 0x10..0x13, and in both
\* cases the accumulated bytes, the consumed set and the chunk-info list are
\* what they were before the call.
C23_RefusedChunkChangesNothing ==
    (/\ p_last.call = "parse_spd_chunk"
     /\ \/ p_last.packet[3] \in p_last.before.received
        \/ p_last.packet[3] \notin 16..19)
    => /\ ~p_last.ok
       /\ spd_bytes = p_last.before.bytes
       /\ chunks_received = p_last.before.received
       /\ chunk_info_list = p_last.before.infos

\* a second reply to the 0x10 request has been refused by a parser that
\* holds the bytes of two chunks
C23_Witness ==
    /\ p_last.call = "parse_spd_chunk"
    /\ ~p_last.ok
    /\ p_last.packet[3] = 16
    /\ p_last.before.received = {16, 17}
    /\ Len(spd_bytes) = 96

\* C29: after every sequence of reset_spd_collection and parse_spd_chunk
\* calls, failed ones included, the consumed set is a subset of 0x10..0x13, the
\* accumulated bytes number 48 for each consumed subcommand among 0x10, 0x11
\* and 0x12 (at most 144), and the chunk-info list has exactly one entry for
\* each consumed subcommand.
C29_ParserInvariant ==
    /\ chunks_received \subseteq 16..19
    /\ Len(spd_bytes) = 48 * Cardinality(chunks_received \cap 16..18)
    /\ Len(spd_bytes) <= 144
    /\ Len(chunk_info_list) = Cardinality(chunks_received)
    /\ \A sc \in chunks_received :
           \E i \in 1..Len(chunk_info_list) : chunk_info_list[i].subcmd = sc

\* all four chunks are consumed, 144 bytes are held, and the last call was
\* refused
C29_Witness ==
    /\ chunks_received = 16..19
    /\ Len(spd_bytes) = 144
    /\ p_last.call = "parse_spd_chunk"
    /\ ~p_last.ok

(***************************************************************************)
(* Callbacks: registration, the broadcast of every valid chunk by the      *)
(* receive loop, and the broadcast of a measurement's result               *)
(***************************************************************************)
MaxObservers == 3

MaxObserverEvents == 2

\* the callables that are registered; Faulty raises whenever it is called
Observers == {"logger", "plotter", "faulty"}

Raises(cb) == cb = "faulty"

\* one invocation cb(arg), made while iterating over the list named list
Invocation(list, cb, arg) == [list |-> list, cb |-> cb, arg |-> arg]

\* "for cb in cbs: try: cb(arg) except Exception: ..." -- every callback of
\* the list is called
GuardedCalls(list, cbs, arg) ==
    [i \in 1..Len(cbs) |-> Invocation(list, cbs[i], arg)]

\* "for cb in cbs: cb(arg)" -- the calls up to the first one that raises
RECURSIVE CallsMade(_, _, _)
CallsMade(list, cbs, arg) ==
    IF cbs = <<>> THEN <<>>
    ELSE IF Raises(Head(cbs)) THEN <<Invocation(list, Head(cbs), arg)>>
    ELSE <<Invocation(list, Head(cbs), arg)>>
             \o CallsMade(list, Tail(cbs), arg)

\* the iteration "for cb in cbs: cb(arg)" leaves by an exception
Propagates(cbs) == \E i \in 1..Len(cbs) : Raises(cbs[i])

\* a _trigger_callbacks without try/except around the calls
TriggerUnguarded(res) ==
    IF Propagates(raw_measurement_callbacks)
    THEN [calls |-> CallsMade("raw_measurement",
                              raw_measurement_callbacks, res),
          raised |-> TRUE]
    ELSE [calls |-> CallsMade("raw_measurement",
                              raw_measurement_callbacks, res)
                        \o CallsMade("response", response_callbacks, res),
          raised |-> Propagates(response_callbacks)]

\* _trigger_callbacks: the invocations it makes, and whether it leaves by
\* an exception.  Each call has its own try/except Exception.
_trigger_callbacks(res) ==
    [calls |-> GuardedCalls("raw_measurement",
                            raw_measurement_callbacks, res)
                   \o GuardedCalls("response", response_callbacks, res),
     raised |-> FALSE]

\* the results _read_measurement assembles: with and without a header
ObserverResults ==
    {Concluded(NewResult, <<>>),
     Concluded([NewResult EXCEPT !.header = HeaderInfo(HeaderFrame)], <<>>)}

\* what readexactly(60) returns
ObserverChunks == {HeaderFrame, InfoFrame, BadStartFrame}

ObserverInit == SessionIdle /\ CodecIdle /\ OthersIdle

Registered ==
    Len(raw_callbacks) + Len(raw_measurement_callbacks)
        + Len(response_callbacks)

RegisterRawCallback ==
    \E cb \in Observers :
        /\ Registered < MaxObservers
        /\ raw_callbacks' = Append(raw_callbacks, cb)
        /\ UNCHANGED <<raw_measurement_callbacks, response_callbacks,
                       cb_calls, m_returned, events, sessionVars, codecVars,
                       deviceVars, packetVars, decodeVars, parserVars,
                       colorVars>>

RegisterRawMeasurementCallback ==
    \E cb \in Observers :
        /\ Registered < MaxObservers
        /\ raw_measurement_callbacks' = Append(raw_measurement_callbacks, cb)
        /\ UNCHANGED <<raw_callbacks, response_callbacks,
                       cb_calls, m_returned, events, sessionVars, codecVars,
                       deviceVars, packetVars, decodeVars, parserVars,
                       colorVars>>

RegisterResponseCallback ==
    \E cb \in Observers :
        /\ Registered < MaxObservers
        /\ response_callbacks' = Append(response_callbacks, cb)
        /\ UNCHANGED <<raw_callbacks, raw_measurement_callbacks,
                       cb_calls, m_returned, events, sessionVars, codecVars,
                       deviceVars, packetVars, decodeVars, parserVars,
                       colorVars>>

\* _read_measurement from "Fire callbacks" on: no await lies between
\* _trigger_callbacks(result) and "return result"
MeasurementConcluded ==
    \E res \in ObserverResults :
        /\ events < MaxObserverEvents
        /\ cb_calls' = cb_calls \o _trigger_callbacks(res).calls
        /\ m_returned' = IF _trigger_callbacks(res).raised THEN m_returned
                         ELSE Append(m_returned, res)
        /\ events' = events + 1
        /\ UNCHANGED <<raw_callbacks, raw_measurement_callbacks,
                       response_callbacks, sessionVars, codecVars,
                       deviceVars, packetVars, decodeVars, parserVars,
                       colorVars>>

\* one iteration of _receive_loop: a valid chunk is put in the queue and
\* then handed to the raw callbacks; a callback's exception leaves the
\* while loop and reaches "except Exception", where the task ends
ObserverReceive ==
    \E data \in ObserverChunks :
        /\ loop = "reading" /\ running
        /\ events < MaxObserverEvents
        /\ wire' = Append(wire, data)
        /\ events' = events + 1
        /\ IF is_valid_packet(data)
           THEN /\ frames' = Put(frames, data)
                /\ cb_calls' = cb_calls \o CallsMade("raw", raw_callbacks, data)
                /\ loop' = IF Propagates(raw_callbacks) THEN "ended"
                           ELSE loop
           ELSE UNCHANGED <<frames, cb_calls, loop>>
        /\ UNCHANGED <<raw_callbacks, raw_measurement_callbacks,
                       response_callbacks, m_returned, running, reads,
                       returned, closed, callers, written, sessionRest,
                       codecVars, packetVars, decodeVars, parserVars,
                       colorVars>>

ObserverNext ==
    \/ RegisterRawCallback
    \/ RegisterRawMeasurementCallback
    \/ RegisterResponseCallback
    \/ MeasurementConcluded
    \/ ObserverReceive

ObserverSpec == ObserverInit /\ [][ObserverNext]_vars

\* C24: when _read_measurement returns a result, the invocations made since
\* the result was assembled are exactly: every raw-measurement callback once,
\* in registration order, then every response callback once, in registration
\* order, each with that result -- the callbacks that raise included; and
\* measurement callbacks are invoked at no other time.
C24_ObserversThenReturn ==
    [][LET rm == raw_measurement_callbacks
           rs == response_callbacks
           new == SubSeq(cb_calls', Len(cb_calls) + 1, Len(cb_calls'))
       IN  IF events' # events /\ wire' = wire
           THEN /\ Len(m_returned') = Len(m_returned) + 1
                /\ Len(new) = Len(rm) + Len(rs)
                /\ \A i \in 1..Len(new) :
                       /\ new[i].arg = m_returned'[Len(m_returned')]
                       /\ i <= Len(rm) =>
                              /\ new[i].list = "raw_measurement"
                              /\ new[i].cb = rm[i]
                       /\ i > Len(rm) =>
                              /\ new[i].list = "response"
                              /\ new[i].cb = rs[i - Len(rm)]
           ELSE /\ m_returned' = m_returned
                /\ \A i \in 1..Len(new) : new[i].list = "raw"]_vars

\* a result has been returned after a raising raw-measurement callback, a
\* second raw-measurement callback and a response callback were invoked
C24_Witness ==
    /\ Len(m_returned) = 1
    /\ Len(cb_calls) = 3
    /\ cb_calls[1].list = "raw_measurement" /\ cb_calls[1].cb = "faulty"
    /\ cb_calls[2].list = "raw_measurement" /\ cb_calls[2].cb = "logger"
    /\ cb_calls[3].list = "response"
    /\ cb_calls[3].arg = m_returned[1]

\* C30: a raw callback that raises while a chunk is broadcast does not stop
\* the receive loop: the chunk stays in the queue, the callbacks registered
\* after it are still called with the chunk, and the loop goes on reading.
C30_RaisingObserverKeepsLoop ==
    \A i \in 1..Len(cb_calls) :
        (cb_calls[i].list = "raw" /\ Raises(cb_calls[i].cb)) =>
            /\ loop = "reading"
            /\ \E k \in 1..Len(frames) : frames[k] = cb_calls[i].arg
            /\ \A j \in 1..Len(raw_callbacks) :
                   \E k \in 1..Len(cb_calls) :
                       /\ cb_calls[k].list = "raw"
                       /\ cb_calls[k].cb = raw_callbacks[j]
                       /\ cb_calls[k].arg = cb_calls[i].arg

(***************************************************************************)
(* The colour conversions.  A float is represented by the rational number  *)
(* it stands for, numerator over positive denominator in lowest terms;     *)
(* the rounding of the float operations is not represented.                *)
(***************************************************************************)
Abs(x) == IF x < 0 THEN -x ELSE x

RECURSIVE GCD(_, _)
GCD(x, y) == IF y = 0 THEN x ELSE GCD(y, x % y)

\* n / d in lowest terms, d # 0
Rat(n, d) ==
    LET g == GCD(Abs(n), Abs(d))
    IN  IF d < 0 THEN [n |-> (-n) \div g, d |-> (-d) \div g]
        ELSE [n |-> n \div g, d |-> d \div g]

RInt(n) == [n |-> n, d |-> 1]

\* x * y, reduced before the products are formed
RMul(x, y) ==
    LET g1 == GCD(Abs(x.n), y.d)
        g2 == GCD(Abs(y.n), x.d)
    IN  [n |-> (x.n \div g1) * (y.n \div g2),
         d |-> (x.d \div g2) * (y.d \div g1)]

\* x / y, y # 0
RDiv(x, y) ==
    RMul(x, IF y.n < 0 THEN [n |-> -y.d, d |-> -y.n]
            ELSE [n |-> y.d, d |-> y.n])

RAdd(x, y) ==
    LET g == GCD(x.d, y.d)
    IN  Rat(x.n * (y.d \div g) + y.n * (x.d \div g), (x.d \div g) * y.d)

RNeg(x) == [n |-> -x.n, d |-> x.d]

RSub(x, y) == RAdd(x, RNeg(y))

\* x < y
RLess(x, y) ==
    LET g == GCD(x.d, y.d)
    IN  x.n * (y.d \div g) < y.n * (x.d \div g)

RAbs(x) == [n |-> Abs(x.n), d |-> x.d]

\* np.cbrt of a positive number whose numerator and denominator are cubes
ICbrt(m) == CHOOSE r \in 0..1290 : r * r * r = m

Cbrt(t) == [n |-> ICbrt(t.n), d |-> ICbrt(t.d)]

\* delta = 6/29
delta == Rat(6, 29)

\* f of xyz_to_lab
f(t) ==
    IF RLess(RMul(delta, RMul(delta, delta)), t)
    THEN Cbrt(t)
    ELSE RAdd(RDiv(t, RMul(RInt(3), RMul(delta, delta))), Rat(4, 29))

\* an f_inv that takes its branch at delta**3, as f does
FInvBreaksAtCube(ft) ==
    IF RLess(RMul(delta, RMul(delta, delta)), ft)
    THEN RMul(ft, RMul(ft, ft))
    ELSE RMul(RMul(RInt(3), RMul(delta, delta)), RSub(ft, Rat(4, 29)))

\* f_inv of lab_to_xyz
f_inv(ft) ==
    IF RLess(delta, ft)
    THEN RMul(ft, RMul(ft, ft))
    ELSE RMul(RMul(RInt(3), RMul(delta, delta)), RSub(ft, Rat(4, 29)))

\* xyz_to_lab for an illuminant given as a tuple
xyz_to_lab(xyz, illuminant) ==
    LET xr == RDiv(xyz[1], illuminant[1])
        yr == RDiv(xyz[2], illuminant[2])
        zr == RDiv(xyz[3], illuminant[3])
        fx == f(xr)
        fy == f(yr)
        fz == f(zr)
    IN  <<RSub(RMul(RInt(116), fy), RInt(16)),
          RMul(RInt(500), RSub(fx, fy)),
          RMul(RInt(200), RSub(fy, fz))>>

\* lab_to_xyz for an illuminant given as a tuple
lab_to_xyz(lab, illuminant) ==
    LET fy == RDiv(RAdd(lab[1], RInt(16)), RInt(116))
        fx == RAdd(fy, RDiv(lab[2], RInt(500)))
        fz == RSub(fy, RDiv(lab[3], RInt(200)))
    IN  <<RMul(f_inv(fx), illuminant[1]),
          RMul(f_inv(fy), illuminant[2]),
          RMul(f_inv(fz), illuminant[3])>>

\* the white points of WhitePoint whose three components are whole numbers:
\* E, LED_NW_4300K and LED_VWW_2200K
Illuminants ==
    {<<RInt(100), RInt(100), RInt(100)>>,
     <<RInt(97), RInt(100), RInt(92)>>,
     <<RInt(103), RInt(100), RInt(50)>>}

\* the sample grid: L* from 0 to 100 with the breakpoint of f_inv (L* = 8)
\* and its neighbours; a* in steps of 125/29 and b* in steps of 50/29, the
\* steps that move fx and fz by 1/116
MaxChromaSteps == 2

LabL == {0, 4, 8, 12, 50, 100}

ChromaSteps == {-9 * MaxChromaSteps, -MaxChromaSteps, 0, MaxChromaSteps,
                9 * MaxChromaSteps}

LabGrid ==
    {<<RInt(L), Rat(125 * j, 29), Rat(50 * k, 29)>> :
        L \in LabL, j \in ChromaSteps, k \in ChromaSteps}

\* every component of u is within 1e-3 of the component of v
Within(u, v) ==
    \A i \in 1..3 : ~RLess(Rat(1, 1000), RAbs(RSub(u[i], v[i])))

ColorRest == <<sessionVars, codecVars, deviceVars, packetVars, decodeVars,
               parserVars, observerVars>>

LabInit ==
    /\ c_call = "lab"
    /\ c_in \in {[lab |-> lab, illuminant |-> w] :
                    lab \in LabGrid, w \in Illuminants}
    /\ c_mid = <<>>
    /\ c_out = <<>>
    /\ c_stage = 0

LabToXyz ==
    /\ c_call = "lab" /\ c_stage = 0
    /\ c_mid' = lab_to_xyz(c_in.lab, c_in.illuminant)
    /\ c_stage' = 1
    /\ UNCHANGED <<c_call, c_in, c_out, ColorRest>>

XyzToLab ==
    /\ c_call = "lab" /\ c_stage = 1
    /\ c_out' = xyz_to_lab(c_mid, c_in.illuminant)
    /\ c_stage' = 2
    /\ UNCHANGED <<c_call, c_in, c_mid, ColorRest>>

\* a 3x3 matrix times a vector
MatVec(m, v) ==
    [i \in 1..3 |-> RAdd(RAdd(RMul(m[i][1], v[1]), RMul(m[i][2], v[2])),
                         RMul(m[i][3], v[3]))]

Dec7(n) == Rat(n, 10000000)

\* M_inv of xyz_to_rgb
M_inv == <<<<Dec7(32404542), Dec7(-15371385), Dec7(-4985314)>>,
           <<Dec7(-9692660), Dec7(18760108), Dec7(415560)>>,
           <<Dec7(556434), Dec7(-2040259), Dec7(10572252)>>>>

\* M of rgb_to_xyz
M == <<<<Dec7(4124564), Dec7(3575761), Dec7(1804375)>>,
       <<Dec7(2126729), Dec7(7151522), Dec7(721750)>>,
       <<Dec7(193339), Dec7(1191920), Dec7(9503041)>>>>

\* the power laws c ** (1 / 2.4) and c ** 2.4 are represented where they
\* are rational: at 1, and from 1 on under the clip that follows
PowerLawKnown(c) == ~RLess(c, RInt(1))

\* np.clip(gamma(c), 0, 1): 12.92 * c up to 0.0031308; the power law is at
\* least 1 from c = 1 on, and is clipped to 1
gamma_clip(c) ==
    IF ~RLess(Dec7(31308), c)
    THEN LET lin == RMul(Rat(1292, 100), c)
         IN  IF RLess(lin, RInt(0)) THEN RInt(0) ELSE lin
    ELSE RInt(1)

\* gamma_clip is represented for c
GammaKnown(c) == ~RLess(Dec7(31308), c) \/ PowerLawKnown(c)

\* ndarray.round(): to the nearest whole number, halves to the even one
Round(x) ==
    LET fl == x.n \div x.d
        twice == 2 * (x.n - fl * x.d)
    IN  IF twice < x.d THEN fl
        ELSE IF twice > x.d THEN fl + 1
        ELSE IF fl % 2 = 0 THEN fl ELSE fl + 1

\* xyz_to_rgb
xyz_to_rgb(xyz, out_255) ==
    LET rgb_lin == MatVec(M_inv, xyz)
        rgb == [i \in 1..3 |-> gamma_clip(rgb_lin[i])]
    IN  IF out_255
        THEN [i \in 1..3 |-> RInt(Round(RMul(rgb[i], RInt(255))))]
        ELSE rgb

\* inv_gamma of rgb_to_xyz: c / 12.92 up to 0.04045; at 1 the power law
\* ((1 + 0.055) / 1.055) ** 2.4 is 1
inv_gamma(c) ==
    IF ~RLess(Rat(4045, 100000), c) THEN RDiv(c, Rat(1292, 100))
    ELSE RInt(1)

\* inv_gamma is represented for c
InvGammaKnown(c) == ~RLess(Rat(4045, 100000), c) \/ c = RInt(1)

\* rgb.max() > 1.0
MaxAboveOne(rgb) == \E i \in 1..3 : RLess(RInt(1), rgb[i])

\* the array inv_gamma is applied to: rgb, divided by 255 when its largest
\* component is above 1
Scaled(rgb) ==
    IF MaxAboveOne(rgb) THEN [i \in 1..3 |-> RDiv(rgb[i], RInt(255))]
    ELSE rgb

\* rgb_to_xyz
rgb_to_xyz(rgb) ==
    MatVec(M, [i \in 1..3 |-> inv_gamma(Scaled(rgb)[i])])

\* the XYZ sample grid: black, and values on the scale of spectrum_to_xyz
\* and of WhitePoint (Y = 100 for white) -- near the D65 white, a grey, a
\* dark yellow
XyzGrid ==
    {<<RInt(0), RInt(0), RInt(0)>>,
     <<RInt(95), RInt(100), RInt(109)>>,
     <<RInt(97), RInt(100), RInt(92)>>,
     <<RInt(50), RInt(50), RInt(50)>>,
     <<RInt(38), RInt(46), RInt(6)>>}

RgbInit ==
    /\ c_call = "rgb"
    /\ c_in \in {[xyz |-> xyz, out_255 |-> o] :
                    xyz \in XyzGrid, o \in BOOLEAN}
    /\ c_mid = <<>>
    /\ c_out = <<>>
    /\ c_stage = 0

XyzToRgb ==
    /\ c_call = "rgb" /\ c_stage = 0
    /\ \A i \in 1..3 : GammaKnown(MatVec(M_inv, c_in.xyz)[i])
    /\ c_mid' = xyz_to_rgb(c_in.xyz, c_in.out_255)
    /\ c_stage' = 1
    /\ UNCHANGED <<c_call, c_in, c_out, ColorRest>>

RgbToXyz ==
    /\ c_call = "rgb" /\ c_stage = 1
    /\ \A i \in 1..3 : InvGammaKnown(Scaled(c_mid)[i])
    /\ c_out' = rgb_to_xyz(c_mid)
    /\ c_stage' = 2
    /\ UNCHANGED <<c_call, c_in, c_mid, ColorRest>>

\* a str is the sequence of its characters' code points
Bradford == <<66, 114, 97, 100, 102, 111, 114, 100>>

CAT02 == <<67, 65, 84, 48, 50>>

Kries == <<75, 114, 105, 101, 115>>

vonKries == <<118, 111, 110, 75, 114, 105, 101, 115>>

\* str.lower() on ASCII text
Lower(str) ==
    [i \in 1..Len(str) |->
        IF str[i] >= 65 /\ str[i] <= 90 THEN str[i] + 32 ELSE str[i]]

Upper(str) ==
    [i \in 1..Len(str) |->
        IF str[i] >= 97 /\ str[i] <= 122 THEN str[i] - 32 ELSE str[i]]

\* the keys of _CAT_MATRICES: "bradford", "cat02", "kries"
CatKeys == {<<98, 114, 97, 100, 102, 111, 114, 100>>,
            <<99, 97, 116, 48, 50>>,
            <<107, 114, 105, 101, 115>>}

\* an adapt_xyz that looks the method up as it was given
AdaptNoLower(method) ==
    IF method \notin CatKeys THEN [kind |-> "ValueError"]
    ELSE [kind |-> "adapted", matrix |-> method]

\* adapt_xyz: the method is lower-cased and looked up; an unknown one
\* raises ValueError.  Of the result only the matrix that was used is kept.
adapt_xyz(method) ==
    IF Lower(method) \notin CatKeys THEN [kind |-> "ValueError"]
    ELSE [kind |-> "adapted", matrix |-> Lower(method)]

\* the method names adapt_xyz is given: "Bradford", "CAT02", "Kries" and
\* "vonKries" as written, in lower and in upper case, and "invalid",
\* "unknown", "cat16", "" and "von kries"
MethodNames ==
    UNION {{name, Lower(name), Upper(name)} :
              name \in {Bradford, CAT02, Kries, vonKries}}
        \cup {<<105, 110, 118, 97, 108, 105, 100>>,
              <<117, 110, 107, 110, 111, 119, 110>>,
              <<99, 97, 116, 49, 54>>,
              <<>>,
              <<118, 111, 110, 32, 107, 114, 105, 101, 115>>}

AdaptInit ==
    /\ c_call = "adapt"
    /\ c_in \in {[method |-> name] : name \in MethodNames}
    /\ c_mid = <<>>
    /\ c_out = <<>>
    /\ c_stage = 0

AdaptXyz ==
    /\ c_call = "adapt" /\ c_stage = 0
    /\ c_out' = adapt_xyz(c_in.method)
    /\ c_stage' = 1
    /\ UNCHANGED <<c_call, c_in, c_mid, ColorRest>>

ColorInit ==
    /\ SessionIdle /\ CodecIdle /\ DeviceIdle /\ PacketIdle /\ DecodeIdle
    /\ ParserIdle /\ ObserversIdle
    /\ LabInit \/ RgbInit \/ AdaptInit

ColorNext ==
    \/ LabToXyz
    \/ XyzToLab
    \/ XyzToRgb
    \/ RgbToXyz
    \/ AdaptXyz

ColorSpec == ColorInit /\ [][ColorNext]_vars

\* C25: xyz_to_lab(lab_to_xyz(L, a, b)) is within 1e-3 of (L, a, b) for every
\* Lab value of the grid, with the same white point in both directions, on
\* both sides of the breakpoint of f.
C25_LabRoundTrip ==
    (c_call = "lab" /\ c_stage = 2) => Within(c_out, c_in.lab)

\* a round trip has been made in which y took the linear branch of f and x
\* the cube-root branch
C25_Witness ==
    /\ c_call = "lab" /\ c_stage = 2
    /\ ~RLess(Rat(216, 24389), RDiv(c_mid[2], c_in.illuminant[2]))
    /\ RLess(Rat(216, 24389), RDiv(c_mid[1], c_in.illuminant[1]))
    /\ c_in.lab[1].n > 0

\* C26: rgb_to_xyz(xyz_to_rgb(X, Y, Z)) is within 1e-3 of (X, Y, Z) for every
\* XYZ value of the grid.
C26_RgbRoundTrip ==
    (c_call = "rgb" /\ c_stage = 2) => Within(c_out, c_in.xyz)

\* every value of the XYZ grid goes through both functions
XyzGridRepresented ==
    (c_call = "rgb" /\ c_stage = 0) =>
        /\ \A i \in 1..3 : GammaKnown(MatVec(M_inv, c_in.xyz)[i])
        /\ \A i \in 1..3 :
               InvGammaKnown(Scaled(xyz_to_rgb(c_in.xyz, c_in.out_255))[i])

\* C27 as stated: adapt_xyz raises for every method name other than the
\* supported ones and does not raise for Bradford, CAT02 and vonKries (in
\* whatever letter case).
C27_SpecNamesAccepted ==
    (c_call = "adapt" /\ c_stage = 1) =>
        LET named == UNION {{name, Lower(name), Upper(name)} :
                               name \in {Bradford, CAT02, vonKries}}
        IN  c_out.kind = "ValueError" <=> c_in.method \notin named

\* C27: adapt_xyz raises ValueError, returning nothing, for every method name
\* that is not bradford, cat02 or kries in some letter case, and does not
\* raise for these three: the von Kries matrix goes by the name kries, and
\* the name vonKries is refused.
C27_UnsupportedExactly ==
    (c_call = "adapt" /\ c_stage = 1) =>
        LET supported ==
                UNION {{name, Lower(name), Upper(name)} :
                          name \in {Bradford, CAT02, Kries}}
        IN  IF c_in.method \in supported
            THEN c_out.kind = "adapted"
            ELSE c_out = [kind |-> "ValueError"]

\* adapt_xyz has refused the name vonKries
C27_Witness ==
    /\ c_call = "adapt" /\ c_stage = 1
    /\ c_in.method = vonKries
    /\ c_out.kind = "ValueError"
====
